---- MODULE Spec2Model ----
(***************************************************************************)
(* Scan scheduling and lifecycle state machine of HarborGuard:             *)
(* ScannerService (startScan, the scan-started listener, executeScan,      *)
(* finalizeScan, updateJobStatus, cancelScan) running on one cooperative   *)
(* execution context, on top of the bounded priority queue, the progress   *)
(* broadcaster and the persistence collaborator.  Every action is one      *)
(* run-to-completion segment of a handler, from one await to the next.     *)
(***************************************************************************)
EXTENDS Integers, Sequences, FiniteSets, TLC

\* ---------------------------------------------------------------- bounds
MaxReq == 2          \* startScan calls explored with failures and cancellation
MaxQueueReq == 5     \* startScan calls explored in the queue-ordering specification
Limit == 1           \* configured concurrency limit of the queue
MaxCancels == 1      \* cancelScan calls
MaxFaults == 1       \* rejections of persistence, result loading and notification
MaxProgress == 1     \* dispatcher progress reports per request
MaxStarts == 4       \* startScan calls explored when request ids may repeat
MaxImages == 2       \* images resolved for a bulk batch or a scheduled execution
MaxOrchFaults == 2   \* rejections of the orchestrators' own persistence writes
MaxCallers == 2      \* callers of one provider's handleRateLimit
MaxCalls == 6        \* handleRateLimit calls
MaxElapses == 1      \* single milliseconds that pass between steps
MaxInstances == 3    \* ScannerService instances constructed
MaxCallbacks == 1    \* interval callbacks of the monitor suspended at the same time
MaxSubscribers == 2  \* progress listeners that may be registered
MaxPatternLen == 3   \* characters of an exclude pattern

Req == 1..(IF MaxReq > MaxQueueReq THEN MaxReq ELSE MaxQueueReq)
LiveReq == 1..MaxReq
QueueReq == 1..MaxQueueReq
CancelId == 1..MaxCancels
Image == 1..MaxImages
AllCancelId == 1..(MaxCancels + MaxImages)   \* direct calls, then cancelBulkScan's
Priorities == {0, -1}                 \* 0 = interactive, -1 = bulk
Subscriber == 1..MaxSubscribers

\* ScanRequest, as far as executeScan looks at it: the source and whether a
\* tarPath is set
RegistryRequest == [source |-> "registry", tarPath |-> FALSE]
ScanRequest == {[source |-> "tar", tarPath |-> TRUE],
                [source |-> "tar", tarPath |-> FALSE],
                [source |-> "local", tarPath |-> FALSE],
                RegistryRequest}

Terminal == {"SUCCESS", "FAILED", "CANCELLED"}
NoError == "none"

VARIABLES
  jobs,        \* globalJobs: requestId -> [status, progress, error]; status "NONE" = no entry
  qPending,    \* queue: waiting QueuedScans, in start order
  qRunning,    \* queue: requestIds holding a slot
  clock,       \* queue: arrival counter stamping enqueuedAt
  reqPrio,     \* priority argument of each startScan call
  enqAt,       \* enqueuedAt stamp each request got (0 = never enqueued)
  waited,      \* the request was left waiting by its addToQueue call
  request,     \* the ScanRequest argument of each startScan call
  svc,         \* the ScannerService instances and the queue's scan-started listeners
  limiter,     \* a registry provider's rate limiter, its callers and the clock
  variants,    \* the Dispatcher variants invoked per requestId, in order
  tracker,     \* ProgressTracker: simulation timers and listeners, with the
               \* numbers of cleanup calls, simulated events and deliveries
  dbStatus,    \* persistence: status column of the scan record
  events,      \* progress events emitted, per requestId, in order
  releases,    \* number of scanQueue.completeScan calls per requestId
  dispatched,  \* number of Dispatcher invocations per requestId
  startPc,     \* position of each startScan call
  startRet,    \* value startScan resolved to
  execPc,      \* position of each executeScan task
  execErr,     \* message of the exception travelling through executeScan
  thrownRunning, \* a Dispatcher/finalize exception was raised while the job was RUNNING
  cancels,     \* the cancelScan calls
  faults,      \* exceptions thrown so far by collaborators
  bulkReq,     \* the executeBulkScan call: its request and what it resolved
  batch,       \* persistence: the bulkScanBatch record
  items,       \* persistence: the bulkScanItem records of the batch, in creation order
  bulkLoop,    \* the background task queueScansInBackground / executeQueuedScans
  bulkCancel,  \* the cancelBulkScan call
  history,     \* persistence: the scheduledScanHistory record
  schedLoop,   \* the background task startScanExecution
  monitor      \* the polling task monitorScanCompletion

\* the state of the batch orchestrators
orchVars == <<bulkReq, batch, items, bulkLoop, bulkCancel, history, schedLoop, monitor>>

vars == <<jobs, variants, tracker, qPending, qRunning, clock, reqPrio, enqAt, waited,
          request, svc, limiter, orchVars, dbStatus, events,
          releases, dispatched, startPc, startRet, execPc, execErr,
          thrownRunning, cancels, faults>>

\* ------------------------------------------------ the mutable program state
\* The part of the state the synchronous helpers read and write, as a record,
\* so that calls compose in program order.
Cur == [jobs |-> jobs, qPending |-> qPending, qRunning |-> qRunning,
        clock |-> clock, request |-> request, svc |-> svc, variants |-> variants,
        tracker |-> tracker,
        events |-> events, releases |-> releases, dispatched |-> dispatched,
        execPc |-> execPc]

Commit(s) ==
  /\ jobs' = s.jobs
  /\ variants' = s.variants
  /\ tracker' = s.tracker
  /\ qPending' = s.qPending
  /\ qRunning' = s.qRunning
  /\ clock' = s.clock
  /\ events' = s.events
  /\ releases' = s.releases
  /\ dispatched' = s.dispatched
  /\ execPc' = s.execPc

NoJob == [status |-> "NONE", progress |-> 0, error |-> NoError]
NoProgress == -1     \* the `progress` argument left undefined

\* ------------------------------------------------------- ProgressTracker
\* the listener throws on every event it is handed
Throws(l) == l = 1

Registered(t) == {t.listeners[i] : i \in 1..Len(t.listeners)}

\* the fan-out calling the listeners in registration order and giving up at
\* the first one that throws
fanOutStopsAtThrow(t) ==
  LET n == Len(t.listeners)
      stop == IF \E i \in 1..n : Throws(t.listeners[i])
              THEN CHOOSE i \in 1..n : /\ Throws(t.listeners[i])
                                       /\ \A j \in 1..(i - 1) : ~Throws(t.listeners[j])
              ELSE n
  IN [t EXCEPT !.delivered = [l \in Subscriber |->
        IF \E i \in 1..stop : t.listeners[i] = l THEN @[l] + 1 ELSE @[l]]]

\* the fan-out of one event: every registered listener is called; what a
\* listener throws is caught and logged
fanOut(t) ==
  [t EXCEPT !.delivered = [l \in Subscriber |->
        IF l \in Registered(t) THEN @[l] + 1 ELSE @[l]]]

\* ProgressTracker.emitProgress: synchronous fan-out of the event
emitProgress(s, r, status, progress) ==
  [s EXCEPT !.events[r] = Append(@, [status |-> status, progress |-> progress]),
            !.tracker = fanOut(@)]

\* ProgressTracker.simulateDownloadProgress / simulateScanningProgress: a
\* timer is armed for the request
simulateDownloadProgress(t, r) == [t EXCEPT !.timers[r] = @ \cup {"download"}]
simulateScanningProgress(t, r) == [t EXCEPT !.timers[r] = @ \cup {"scanning"}]

\* cleanup leaving the request's timers armed
cleanupKeepsTimers(t, r) == [t EXCEPT !.cleanups[r] = @ + 1]

\* ProgressTracker.cleanup: the request's timers are cancelled
cleanup(t, r) == [t EXCEPT !.timers[r] = {}, !.cleanups[r] = @ + 1]

\* ScannerService.updateJobStatus
updateJobStatus(s, r, status, progress, error) ==
  IF s.jobs[r].status = "NONE" THEN s
  ELSE LET j == s.jobs[r]
           nj == [status |-> status,
                  progress |-> IF progress # NoProgress THEN progress ELSE j.progress,
                  error |-> IF error # NoError THEN error ELSE j.error]
           s1 == [s EXCEPT !.jobs[r] = nj]
       IN IF status \in {"RUNNING", "SUCCESS", "FAILED", "CANCELLED"}
          THEN emitProgress(s1, r, status, nj.progress)
          ELSE s1

\* the scan-started listener followed by the synchronous head of executeScan:
\* the job is marked RUNNING and the Dispatcher variant is invoked.
isLocalDockerScan(req) == req.source = "local"
shouldSimulateDownload(req) == req.source # "local" /\ req.source # "tar"

\* the branch executeScan takes: the Dispatcher variant it invokes
dispatchVariant(req) ==
  IF req.source = "tar" /\ req.tarPath THEN "tar"
  ELSE IF isLocalDockerScan(req) THEN "local"
  ELSE "registry"

\* the simulations executeScan starts before it invokes the variant
startSimulation(t, r, req) ==
  IF dispatchVariant(req) # "registry" THEN t
  ELSE LET t1 == IF shouldSimulateDownload(req)
                 THEN simulateDownloadProgress(t, r) ELSE t
       IN simulateScanningProgress(t1, r)

\* ------------------------------------- EnhancedRegistryProvider rate limit
\* getRateLimits() of the provider
requestsPerHour == 5
requestsPerMinute == 2
burstLimit == 2

Hour == 3600000
Minute == 60000
BurstWait == 100
NoJitter == -1       \* Math.random() >= 0.3: no jitter wait
JitterChoice == {NoJitter, 49}

Caller == 1..MaxCallers
NoCaller == [pc |-> "idle", now |-> 0, deadline |-> 0]
\* the provider was constructed at time 0; `admitted` lists the times at
\* which requests were recorded and let through
NoLimiter == [clock |-> 0, requestQueue |-> <<>>, hourlyRequestCount |-> 0,
              hourStartTime |-> 0, callers |-> [c \in Caller |-> NoCaller],
              admitted |-> <<>>, calls |-> 0, elapses |-> 0]

\* await new Promise(resolve => setTimeout(resolve, d))
sleep(L, c, pc, d) ==
  [L EXCEPT !.callers[c].pc = pc, !.callers[c].deadline = L.clock + d]

filterQueue(q, t) == SelectSeq(q, LAMBDA timestamp : timestamp > t)

\* step 7: the optional jitter wait, or the return
finish(L, c, j) ==
  IF j = NoJitter THEN [L EXCEPT !.callers[c] = NoCaller]
  ELSE sleep(L, c, "jitter", j)

\* step 6: the `now` read at the start of the call is recorded
recordRequest(L, c) ==
  [L EXCEPT !.requestQueue = Append(@, L.callers[c].now),
            !.hourlyRequestCount = @ + 1,
            !.admitted = Append(@, L.clock)]

\* step 5: the burst limit
checkBurst(L, c, j) ==
  IF Len(L.requestQueue) >= burstLimit
  THEN sleep(L, c, "burstWait", BurstWait)
  ELSE finish(recordRequest(L, c), c, j)

\* steps 3 and 4: the queue is cleaned and the minute limit is checked
checkMinute(L, c, j) ==
  LET now == L.callers[c].now
      L1 == [L EXCEPT !.requestQueue = filterQueue(@, now - Minute)]
  IN IF Len(L1.requestQueue) >= requestsPerMinute
     THEN LET timeToWait == Minute - (now - L1.requestQueue[1])
          IN IF timeToWait > 0
             THEN sleep(L1, c, "minuteWait", timeToWait)
             ELSE checkBurst(L1, c, j)
     ELSE checkBurst(L1, c, j)

\* steps 1 and 2: the hourly count
handleRateLimit(L, c, j) ==
  LET now == L.clock
      L0 == [L EXCEPT !.callers[c].now = now, !.calls = @ + 1]
      L1 == IF now - L0.hourStartTime > Hour
            THEN [L0 EXCEPT !.hourlyRequestCount = 0, !.hourStartTime = now]
            ELSE L0
  IN IF L1.hourlyRequestCount >= requestsPerHour
     THEN sleep(L1, c, "hourWait", Hour - (now - L1.hourStartTime))
     ELSE checkMinute(L1, c, j)

\* everything but the limiter
notLimiter == <<jobs, variants, tracker, qPending, qRunning, clock, reqPrio, enqAt,
                waited, request, svc, orchVars, dbStatus, events, releases, dispatched,
                startPc, startRet, execPc, execErr, thrownRunning, cancels, faults>>

\* a caller calls handleRateLimit
RateLimitCall(c, j) ==
  /\ limiter.callers[c].pc = "idle"
  /\ limiter.calls < MaxCalls
  /\ limiter' = handleRateLimit(limiter, c, j)
  /\ UNCHANGED notLimiter

\* a timer of a waiting caller has fired
Fired(c, pc) ==
  /\ limiter.callers[c].pc = pc
  /\ limiter.clock >= limiter.callers[c].deadline

\* after the hourly wait the count is reset
HourWake(c, j) ==
  /\ Fired(c, "hourWait")
  /\ limiter' = checkMinute([limiter EXCEPT !.hourlyRequestCount = 0,
                                            !.hourStartTime = limiter.clock], c, j)
  /\ UNCHANGED notLimiter

\* after the minute wait the queue is cleaned again
MinuteWake(c, j) ==
  /\ Fired(c, "minuteWait")
  /\ limiter' = checkBurst([limiter EXCEPT !.requestQueue =
                              filterQueue(@, limiter.clock - Minute)], c, j)
  /\ UNCHANGED notLimiter

BurstWake(c, j) ==
  /\ Fired(c, "burstWait")
  /\ limiter' = finish(recordRequest(limiter, c), c, j)
  /\ UNCHANGED notLimiter

JitterWake(c) ==
  /\ Fired(c, "jitter")
  /\ limiter' = [limiter EXCEPT !.callers[c] = NoCaller]
  /\ UNCHANGED notLimiter

\* one millisecond passes
Elapse ==
  /\ limiter.elapses < MaxElapses
  /\ limiter' = [limiter EXCEPT !.clock = @ + 1, !.elapses = @ + 1]
  /\ UNCHANGED notLimiter

\* time passes until the next timer is due
PendingDeadlines ==
  {limiter.callers[c].deadline : c \in {d \in Caller : limiter.callers[d].pc # "idle"}}
    \ (0..limiter.clock)

ElapseToTimer ==
  /\ PendingDeadlines # {}
  /\ limiter' = [limiter EXCEPT !.clock =
                   CHOOSE t \in PendingDeadlines : \A u \in PendingDeadlines : t <= u]
  /\ UNCHANGED notLimiter

NextLimit ==
  \/ \E c \in Caller, j \in JitterChoice : RateLimitCall(c, j)
  \/ \E c \in Caller, j \in JitterChoice : HourWake(c, j)
  \/ \E c \in Caller, j \in JitterChoice : MinuteWake(c, j)
  \/ \E c \in Caller, j \in JitterChoice : BurstWake(c, j)
  \/ \E c \in Caller : JitterWake(c)
  \/ Elapse
  \/ ElapseToTimer

\* ------------------------------------------------- ScannerService instances
Instance == 1..MaxInstances
NoService == [created |-> 0, service |-> 0, globalListener |-> 0, listeners |-> <<>>]

\* EventEmitter.off: the latest registration of listener x is removed
off(l, x) ==
  IF \E i \in 1..Len(l) : l[i] = x
  THEN LET k == CHOOSE i \in 1..Len(l) : l[i] = x /\ \A j \in (i + 1)..Len(l) : l[j] # x
       IN SubSeq(l, 1, k - 1) \o SubSeq(l, k + 1, Len(l))
  ELSE l

\* setupQueueListeners registering without removing the stored listener
setupQueueListenersKeepsOld(v, id) ==
  [v EXCEPT !.globalListener = id, !.listeners = Append(@, id)]

\* setupQueueListeners: the globally stored listener is removed, the new
\* instance's listener is stored and registered
setupQueueListeners(v, id) ==
  LET v1 == IF v.globalListener # 0
            THEN [v EXCEPT !.listeners = off(@, v.globalListener)]
            ELSE v
  IN [v1 EXCEPT !.globalListener = id, !.listeners = Append(@, id)]

\* new ScannerService()
construct(v) == setupQueueListeners([v EXCEPT !.created = @ + 1], v.created + 1)

\* ScannerService.getInstance
getInstance(v) ==
  IF v.service = 0
  THEN [construct(v) EXCEPT !.service = v.created + 1]
  ELSE v

scanStartedListener(s, r) ==
  LET s1 == IF s.jobs[r].status # "NONE"
            THEN [s EXCEPT !.jobs[r].status = "RUNNING"]
            ELSE s
  IN [s1 EXCEPT !.dispatched[r] = @ + 1, !.execPc[r] = "dispatch",
                !.variants[r] = Append(@, dispatchVariant(s.request[r])),
                !.tracker = startSimulation(@, r, s.request[r])]

\* ------------------------------------------------------------------ queue
PendingIds(q) == {q[i].requestId : i \in 1..Len(q)}

\* q1 is started before q2: higher priority value first, then earlier arrival
Before(q1, q2) ==
  \/ q1.priority > q2.priority
  \/ q1.priority = q2.priority /\ q1.enqueuedAt < q2.enqueuedAt

\* sorted insertion of a QueuedScan
InsertSorted(q, e) ==
  LET n == Cardinality({i \in 1..Len(q) : Before(q[i], e)})
  IN SubSeq(q, 1, n) \o <<e>> \o SubSeq(q, n + 1, Len(q))

\* emit('scan-started'): every registered listener is called, in
\* registration order, from the k-th on
RECURSIVE emitScanStarted(_, _, _)
emitScanStarted(s, r, k) ==
  IF k > Len(s.svc.listeners) THEN s
  ELSE emitScanStarted(scanStartedListener(s, r), r, k + 1)

\* promote pending jobs while a slot is free, firing scan-started for each
RECURSIVE processQueue(_)
processQueue(s) ==
  IF Cardinality(s.qRunning) < Limit /\ Len(s.qPending) > 0
  THEN LET head == s.qPending[1]
           s1 == [s EXCEPT !.qPending = Tail(@),
                           !.qRunning = @ \cup {head.requestId}]
       IN processQueue(emitScanStarted(s1, head.requestId, 1))
  ELSE s

\* ScanQueue.addToQueue
addToQueue(s, r, priority) ==
  LET e == [requestId |-> r, priority |-> priority, enqueuedAt |-> s.clock + 1]
  IN processQueue([s EXCEPT !.qPending = InsertSorted(@, e), !.clock = @ + 1])

\* completeScan releasing the slot without looking at the waiting list
completeScanNoPromotion(s, r) ==
  [s EXCEPT !.qRunning = @ \ {r}, !.releases[r] = @ + 1]

\* ScanQueue.completeScan
completeScan(s, r) ==
  processQueue([s EXCEPT !.qRunning = @ \ {r}, !.releases[r] = @ + 1])

\* ScanQueue.cancelQueuedScan: TRUE iff r is waiting; the entry is removed
cancelQueuedScan(q, r) == SelectSeq(q, LAMBDA e : e.requestId # r)

\* ScanQueue.getQueuePosition
getQueuePosition(q, r) ==
  IF r \in PendingIds(q)
  THEN CHOOSE i \in 1..Len(q) : q[i].requestId = r
  ELSE 0

\* ------------------------------------------------------------------- Init
NoCancel == [req |-> 0, pc |-> "unused", path |-> "none", atCall |-> "NONE",
             ret |-> "none", atRet |-> "NONE"]
NoRet == [queued |-> FALSE, queuePosition |-> -1]
NoMax == -99          \* options.maxImages left undefined
NoBulkRequest == [pc |-> "idle", candidates |-> <<>>, exclude |-> <<>>,
                  maxImages |-> NoMax, matching |-> <<>>, totalImages |-> 0,
                  error |-> NoError]
NoBatch == [status |-> "NONE", error |-> NoError, total |-> 0]
IdleLoop == [pc |-> "idle", i |-> 0, req |-> 0, successful |-> 0, failed |-> 0,
             faults |-> 0, phFault |-> FALSE, log |-> <<>>]
NoBulkCancel == [pc |-> "idle", targets |-> <<>>, k |-> 0, error |-> NoError,
                 faults |-> 0]
NoHistory == [status |-> "NONE", total |-> 0, scannedImages |-> 0, failedImages |-> 0,
              error |-> NoError]
IdleSched == [pc |-> "idle", i |-> 0, req |-> 0, scannedCount |-> 0, failedCount |-> 0,
              faults |-> 0, tracked |-> {}]

\* a callback of the monitor's interval: the await it is suspended at, the
\* scan it is looking at with the status it read, its allCompleted flag and
\* the data of the final update it is about to write
NoCallback == [pc |-> "free", scan |-> 0, read |-> "NONE", allCompleted |-> TRUE,
               status |-> "NONE", error |-> NoError, success |-> 0, failed |-> 0]
Callback == 1..MaxCallbacks
NoMonitor == [started |-> FALSE, active |-> FALSE, attempts |-> 0, scanResults |-> {},
              results |-> [r \in Image |-> "PENDING"],
              callbacks |-> [c \in Callback |-> NoCallback], faults |-> 0]

NoTracker == [timers |-> [r \in Req |-> {}], cleanups |-> [r \in Req |-> 0],
              simEvents |-> [r \in Req |-> 0], listeners |-> <<>>,
              delivered |-> [l \in Subscriber |-> 0]]

\* the state after construction, whatever the requests will be
InitState ==
  /\ jobs = [r \in Req |-> NoJob]
  /\ variants = [r \in Req |-> <<>>]
  /\ tracker = NoTracker
  /\ qPending = <<>>
  /\ qRunning = {}
  /\ clock = 0
  /\ reqPrio = [r \in Req |-> 0]
  /\ enqAt = [r \in Req |-> 0]
  /\ waited = [r \in Req |-> FALSE]
  /\ dbStatus = [r \in Req |-> "NONE"]
  /\ events = [r \in Req |-> <<>>]
  /\ releases = [r \in Req |-> 0]
  /\ dispatched = [r \in Req |-> 0]
  /\ startPc = [r \in Req |-> "idle"]
  /\ startRet = [r \in Req |-> NoRet]
  /\ execPc = [r \in Req |-> "none"]
  /\ execErr = [r \in Req |-> NoError]
  /\ thrownRunning = [r \in Req |-> FALSE]
  /\ cancels = [c \in AllCancelId |-> NoCancel]
  /\ faults = 0
  /\ bulkReq = NoBulkRequest
  /\ batch = NoBatch
  /\ items = <<>>
  /\ bulkLoop = IdleLoop
  /\ bulkCancel = NoBulkCancel
  /\ history = NoHistory
  /\ schedLoop = IdleSched
  /\ monitor = NoMonitor
  /\ svc = getInstance(NoService)
  /\ limiter = NoLimiter

\* every request is a registry scan
Init ==
  /\ InitState
  /\ request = [r \in Req |-> RegistryRequest]

\* -------------------------------------------------------------- startScan
\* request ids are handed out in call order (generateRequestId)
NextRequest(r) ==
  /\ startPc[r] = "idle"
  /\ \A q \in Req : q < r => startPc[q] # "idle"

\* startScan stores the PENDING job and forwards request and priority to the queue
startScanEnqueueDropsPriority(s, r, p) ==
  addToQueue([s EXCEPT !.jobs[r] = [status |-> "PENDING", progress |-> 0,
                                    error |-> NoError]], r, 0)

startScanEnqueue(s, r, p) ==
  addToQueue([s EXCEPT !.jobs[r] = [status |-> "PENDING", progress |-> 0,
                                    error |-> NoError]], r, p)

\* startScan from the call to `await addToQueue`: initializeScanRecord resolved,
\* the job is created PENDING and handed to the queue
StartScan(r, p) ==
  /\ NextRequest(r)
  /\ Commit(startScanEnqueue(Cur, r, p))
  /\ reqPrio' = [reqPrio EXCEPT ![r] = p]
  /\ enqAt' = [enqAt EXCEPT ![r] = clock + 1]
  /\ waited' = [waited EXCEPT ![r] = r \in PendingIds(startScanEnqueue(Cur, r, p).qPending)]
  /\ dbStatus' = [dbStatus EXCEPT ![r] = "CREATED"]
  /\ startPc' = [startPc EXCEPT ![r] = "enqueued"]
  /\ UNCHANGED <<request, svc, limiter, startRet, execErr, thrownRunning, cancels, faults>>

\* startScan storing the job before the scan record is created
StartInitThrowAfterJobSet(r) ==
  /\ NextRequest(r)
  /\ faults < MaxFaults
  /\ faults' = faults + 1
  /\ startPc' = [startPc EXCEPT ![r] = "rejected"]
  /\ jobs' = [jobs EXCEPT ![r] = [status |-> "PENDING", progress |-> 0,
                                  error |-> NoError]]
  /\ UNCHANGED <<variants, tracker, qPending, qRunning, clock, reqPrio, enqAt, waited, request, svc, limiter, dbStatus,
                 events, releases, dispatched, startRet, execPc, execErr,
                 thrownRunning, cancels>>

\* initializeScanRecord rejected: startScan rejects, nothing was created
StartInitThrow(r) ==
  /\ NextRequest(r)
  /\ faults < MaxFaults
  /\ faults' = faults + 1
  /\ startPc' = [startPc EXCEPT ![r] = "rejected"]
  /\ UNCHANGED <<jobs, variants, tracker, qPending, qRunning, clock, reqPrio, enqAt, waited, request, svc, limiter, dbStatus,
                 events, releases, dispatched, startRet, execPc, execErr,
                 thrownRunning, cancels>>

\* startScan treating every position, 0 included, as a queued job
StartPositionAlwaysQueued(r) ==
  /\ startPc[r] = "enqueued"
  /\ LET pos == getQueuePosition(qPending, r)
     IN IF pos >= 0
        THEN /\ startPc' = [startPc EXCEPT ![r] = "persist"]
             /\ startRet' = [startRet EXCEPT ![r] = [queued |-> TRUE, queuePosition |-> pos]]
        ELSE /\ startPc' = [startPc EXCEPT ![r] = "returned"]
             /\ startRet' = [startRet EXCEPT ![r] = [queued |-> FALSE, queuePosition |-> 0]]
  /\ UNCHANGED <<jobs, variants, tracker, qPending, qRunning, clock, reqPrio, enqAt, waited, request, svc, limiter, orchVars, dbStatus,
                 events, releases, dispatched, execPc, execErr,
                 thrownRunning, cancels, faults>>

\* after `await addToQueue`: position query, then return or persist PENDING
StartPosition(r) ==
  /\ startPc[r] = "enqueued"
  /\ LET pos == getQueuePosition(qPending, r)
     IN IF pos > 0
        THEN /\ startPc' = [startPc EXCEPT ![r] = "persist"]
             /\ startRet' = [startRet EXCEPT ![r] = [queued |-> TRUE, queuePosition |-> pos]]
        ELSE /\ startPc' = [startPc EXCEPT ![r] = "returned"]
             /\ startRet' = [startRet EXCEPT ![r] = [queued |-> FALSE, queuePosition |-> 0]]
  /\ UNCHANGED <<jobs, variants, tracker, qPending, qRunning, clock, reqPrio, enqAt, waited, request, svc, limiter, orchVars, dbStatus,
                 events, releases, dispatched, execPc, execErr,
                 thrownRunning, cancels, faults>>

\* updateScanRecord(PENDING) resolved: startScan returns queued = true
StartPersistReturn(r) ==
  /\ startPc[r] = "persist"
  /\ dbStatus' = [dbStatus EXCEPT ![r] = "PENDING"]
  /\ startPc' = [startPc EXCEPT ![r] = "returned"]
  /\ UNCHANGED <<jobs, variants, tracker, qPending, qRunning, clock, reqPrio, enqAt, waited, request, svc, limiter, orchVars, events,
                 releases, dispatched, startRet, execPc, execErr,
                 thrownRunning, cancels, faults>>

\* updateScanRecord(PENDING) rejected: startScan rejects, the job stays queued
StartPersistThrow(r) ==
  /\ startPc[r] = "persist"
  /\ faults < MaxFaults
  /\ faults' = faults + 1
  /\ startPc' = [startPc EXCEPT ![r] = "rejected"]
  /\ startRet' = [startRet EXCEPT ![r] = NoRet]
  /\ UNCHANGED <<jobs, variants, tracker, qPending, qRunning, clock, reqPrio, enqAt, waited, request, svc, limiter, orchVars, dbStatus,
                 events, releases, dispatched, execPc, execErr,
                 thrownRunning, cancels>>

\* ---------------------------------------------- executeScan / finalizeScan
\* the Dispatcher reports phase progress through ProgressTracker.updateProgress
ProgressCount(r) ==
  Cardinality({i \in 1..Len(events[r]) : events[r][i].progress = 50})

updateProgress(s, r, progress) == updateJobStatus(s, r, "RUNNING", progress, NoError)

DispatcherProgress(r) ==
  /\ execPc[r] = "dispatch"
  /\ ProgressCount(r) < MaxProgress
  /\ Commit(updateProgress(Cur, r, 50))
  /\ UNCHANGED <<reqPrio, enqAt, waited, request, svc, limiter, orchVars, dbStatus, startPc, startRet, execErr,
                 thrownRunning, cancels, faults>>

\* the Dispatcher returned: finalizeScan up to `await loadScanResults`
finalizeScanHead(s, r) ==
  [updateJobStatus(s, r, "RUNNING", 90, NoError) EXCEPT !.execPc[r] = "load"]

DispatcherReturn(r) ==
  /\ execPc[r] = "dispatch"
  /\ Commit(finalizeScanHead(Cur, r))
  /\ UNCHANGED <<reqPrio, enqAt, waited, request, svc, limiter, orchVars, dbStatus, startPc, startRet, execErr,
                 thrownRunning, cancels, faults>>

\* an awaited call of the try block rejected: the catch block of executeScan
\* calls progressTracker.cleanup and awaits updateScanRecord(FAILED)
ExecThrow(r, at, msg, counted) ==
  /\ execPc[r] = at
  /\ IF counted THEN faults < MaxFaults /\ faults' = faults + 1
                ELSE faults' = faults
  /\ execPc' = [execPc EXCEPT ![r] = "catchPersist"]
  /\ execErr' = [execErr EXCEPT ![r] = msg]
  /\ thrownRunning' = [thrownRunning EXCEPT ![r] = @ \/ jobs[r].status = "RUNNING"]
  /\ tracker' = cleanup(tracker, r)
  /\ UNCHANGED <<jobs, variants, qPending, qRunning, clock, reqPrio, enqAt, waited, request, svc, limiter, orchVars, dbStatus,
                 events, releases, dispatched, startPc, startRet, cancels>>

DispatcherThrow(r) == ExecThrow(r, "dispatch", "scan failed", FALSE)
LoadThrow(r) == ExecThrow(r, "load", "load failed", TRUE)
UploadThrow(r) == ExecThrow(r, "upload", "upload failed", TRUE)
NotifyThrow(r) == ExecThrow(r, "notify", "notify failed", TRUE)

\* loadScanResults and getScannerVersions resolved: uploadScanResults is awaited
LoadReturn(r) ==
  /\ execPc[r] = "load"
  /\ execPc' = [execPc EXCEPT ![r] = "upload"]
  /\ UNCHANGED <<jobs, variants, tracker, qPending, qRunning, clock, reqPrio, enqAt, waited, request, svc, limiter, orchVars, dbStatus,
                 events, releases, dispatched, startPc, startRet, execErr,
                 thrownRunning, cancels, faults>>

\* the end of finalizeScan: SUCCESS at 100 and the slot release
finalizeScanTail(s, r) ==
  LET s1 == updateJobStatus(s, r, "SUCCESS", 100, NoError)
      s2 == completeScan(s1, r)
  IN [s2 EXCEPT !.execPc[r] = "done"]

\* uploadScanResults resolved; with critical or high findings the notification
\* is awaited, otherwise finalizeScan completes
UploadReturn(r, severe) ==
  /\ execPc[r] = "upload"
  /\ dbStatus' = [dbStatus EXCEPT ![r] = "SUCCESS"]
  /\ IF severe
     THEN Commit([Cur EXCEPT !.execPc[r] = "notify"])
     ELSE Commit(finalizeScanTail(Cur, r))
  /\ UNCHANGED <<reqPrio, enqAt, waited, request, svc, limiter, orchVars, startPc, startRet, execErr, thrownRunning,
                 cancels, faults>>

NotifyReturn(r) ==
  /\ execPc[r] = "notify"
  /\ Commit(finalizeScanTail(Cur, r))
  /\ UNCHANGED <<reqPrio, enqAt, waited, request, svc, limiter, orchVars, dbStatus, startPc, startRet, execErr,
                 thrownRunning, cancels, faults>>

\* catch block of executeScan after updateScanRecord(FAILED) resolved:
\* FAILED is recorded and the error is rethrown
executeScanCatchTail(s, r, msg) ==
  [updateJobStatus(s, r, "FAILED", NoProgress, msg) EXCEPT !.execPc[r] = "boundary"]

CatchPersistReturn(r) ==
  /\ execPc[r] = "catchPersist"
  /\ dbStatus' = [dbStatus EXCEPT ![r] = "FAILED"]
  /\ Commit(executeScanCatchTail(Cur, r, execErr[r]))
  /\ UNCHANGED <<reqPrio, enqAt, waited, request, svc, limiter, orchVars, startPc, startRet, execErr, thrownRunning,
                 cancels, faults>>

\* updateScanRecord(FAILED) rejected inside the catch block: its error replaces
\* the original one and leaves executeScan
CatchPersistThrow(r) ==
  /\ execPc[r] = "catchPersist"
  /\ faults < MaxFaults
  /\ faults' = faults + 1
  /\ execErr' = [execErr EXCEPT ![r] = "persist failed"]
  /\ execPc' = [execPc EXCEPT ![r] = "boundary"]
  /\ UNCHANGED <<jobs, variants, tracker, qPending, qRunning, clock, reqPrio, enqAt, waited, request, svc, limiter, orchVars, dbStatus,
                 events, releases, dispatched, startPc, startRet,
                 thrownRunning, cancels>>

\* the .catch handler without its completeScan call
dispatchBoundaryNoRelease(s, r, msg) ==
  [updateJobStatus(s, r, "FAILED", NoProgress, msg) EXCEPT !.execPc[r] = "done"]

\* the .catch handler the listener attached to executeScan
dispatchBoundary(s, r, msg) ==
  LET s1 == updateJobStatus(s, r, "FAILED", NoProgress, msg)
      s2 == completeScan(s1, r)
  IN [s2 EXCEPT !.execPc[r] = "done"]

Boundary(r) ==
  /\ execPc[r] = "boundary"
  /\ Commit(dispatchBoundary(Cur, r, execErr[r]))
  /\ UNCHANGED <<reqPrio, enqAt, waited, request, svc, limiter, orchVars, dbStatus, startPc, startRet, execErr,
                 thrownRunning, cancels, faults>>

\* -------------------------------------------------------------- cancelScan
FirstUnused(c) ==
  /\ cancels[c].pc = "unused"
  /\ \A d \in CancelId : d < c => cancels[d].pc # "unused"

\* cancelScan marking a waiting job CANCELLED without taking it out of the queue
cancelScanHeadLeavesQueued(s, r) ==
  IF r \in PendingIds(s.qPending)
  THEN [state |-> updateJobStatus(s, r, "CANCELLED", NoProgress, NoError),
        path |-> "pending", pc |-> "persist", ret |-> "none"]
  ELSE IF s.jobs[r].status = "RUNNING"
  THEN [state |-> updateJobStatus([s EXCEPT !.tracker = cleanup(@, r)],
                                   r, "CANCELLED", NoProgress, NoError),
        path |-> "running", pc |-> "persist", ret |-> "none"]
  ELSE [state |-> s, path |-> "none", pc |-> "done", ret |-> "false"]

\* cancelScan taking the running path for any known job, whatever its status
cancelScanHeadNoStatusCheck(s, r) ==
  IF r \in PendingIds(s.qPending)
  THEN [state |-> updateJobStatus([s EXCEPT !.qPending = cancelQueuedScan(@, r)],
                                   r, "CANCELLED", NoProgress, NoError),
        path |-> "pending", pc |-> "persist", ret |-> "none"]
  ELSE IF s.jobs[r].status # "NONE"
  THEN [state |-> updateJobStatus([s EXCEPT !.tracker = cleanup(@, r)],
                                   r, "CANCELLED", NoProgress, NoError),
        path |-> "running", pc |-> "persist", ret |-> "none"]
  ELSE [state |-> s, path |-> "none", pc |-> "done", ret |-> "false"]

\* cancelScan up to its first await, or to `return false`
cancelScanHead(s, r) ==
  IF r \in PendingIds(s.qPending)
  THEN [state |-> updateJobStatus([s EXCEPT !.qPending = cancelQueuedScan(@, r)],
                                   r, "CANCELLED", NoProgress, NoError),
        path |-> "pending", pc |-> "persist", ret |-> "none"]
  ELSE IF s.jobs[r].status = "RUNNING"
  THEN [state |-> updateJobStatus([s EXCEPT !.tracker = cleanup(@, r)],
                                   r, "CANCELLED", NoProgress, NoError),
        path |-> "running", pc |-> "persist", ret |-> "none"]
  ELSE [state |-> s, path |-> "none", pc |-> "done", ret |-> "false"]

CancelCall(c, r) ==
  /\ cancels[c].pc = "unused"
  /\ LET h == cancelScanHead(Cur, r)
     IN /\ Commit(h.state)
        /\ cancels' = [cancels EXCEPT ![c] =
             [req |-> r, pc |-> h.pc, path |-> h.path,
              atCall |-> jobs[r].status, ret |-> h.ret,
              atRet |-> IF h.pc = "done" THEN jobs[r].status ELSE "NONE"]]
  /\ UNCHANGED <<reqPrio, enqAt, waited, request, svc, limiter, dbStatus, startPc, startRet, execErr,
                 thrownRunning, faults>>

\* updateScanRecord(CANCELLED) resolved: the pending path returns true, the
\* running path releases the slot and awaits completeScan
cancelScanPersisted(s, r, path) ==
  IF path = "running" THEN completeScan(s, r) ELSE s

CancelPersistReturn(c) ==
  /\ cancels[c].pc = "persist"
  /\ LET r == cancels[c].req
         s == cancelScanPersisted(Cur, r, cancels[c].path)
     IN /\ Commit(s)
        /\ dbStatus' = [dbStatus EXCEPT ![r] = "CANCELLED"]
        /\ cancels' = [cancels EXCEPT ![c] =
             IF cancels[c].path = "running"
             THEN [@ EXCEPT !.pc = "complete"]
             ELSE [@ EXCEPT !.pc = "done", !.ret = "true",
                            !.atRet = s.jobs[r].status]]
  /\ UNCHANGED <<reqPrio, enqAt, waited, request, svc, limiter, orchVars, startPc, startRet, execErr, thrownRunning,
                 faults>>

\* updateScanRecord(CANCELLED) rejected: cancelScan rejects
CancelPersistThrow(c) ==
  /\ cancels[c].pc = "persist"
  /\ faults < MaxFaults
  /\ faults' = faults + 1
  /\ cancels' = [cancels EXCEPT ![c] = [@ EXCEPT !.pc = "done", !.ret = "throw",
                                          !.atRet = jobs[cancels[c].req].status]]
  /\ UNCHANGED <<jobs, variants, tracker, qPending, qRunning, clock, reqPrio, enqAt, waited, request, svc, limiter, orchVars, dbStatus,
                 events, releases, dispatched, startPc, startRet, execPc,
                 execErr, thrownRunning>>

\* `await completeScan` resolved on the running path: cancelScan returns true
CancelCompleteReturn(c) ==
  /\ cancels[c].pc = "complete"
  /\ cancels' = [cancels EXCEPT ![c] = [@ EXCEPT !.pc = "done", !.ret = "true",
                                          !.atRet = jobs[cancels[c].req].status]]
  /\ UNCHANGED <<jobs, variants, tracker, qPending, qRunning, clock, reqPrio, enqAt, waited, request, svc, limiter, orchVars, dbStatus,
                 events, releases, dispatched, startPc, startRet, execPc,
                 execErr, thrownRunning, faults>>

\* ------------------------------------------------------- exclude patterns
\* strings are sequences of characters
RECURSIVE StringsUpTo(_, _)
StringsUpTo(chars, n) ==
  IF n = 0 THEN {<<>>}
  ELSE LET shorter == StringsUpTo(chars, n - 1)
       IN shorter \cup {Append(w, c) : w \in shorter, c \in chars}

\* pattern.replace(/\*/g, '.*').replace(/\?/g, '.'): the text handed to RegExp
RECURSIVE regexPattern(_)
regexPattern(pattern) ==
  IF pattern = <<>> THEN <<>>
  ELSE LET c == Head(pattern)
       IN (IF c = "*" THEN <<".", "*">> ELSE IF c = "?" THEN <<".">> ELSE <<c>>)
            \o regexPattern(Tail(pattern))

\* one atom of the regular expression against one character
atomMatches(a, c) == a = "." \/ a = c

\* new RegExp(`^${regexPattern}$`).test(text), for the expressions the
\* conversion produces on letters, digits, ':', '.', '*' and '?': an atom is
\* a character or '.', and an atom followed by '*' repeats
RECURSIVE regexTest(_, _)
regexTest(re, text) ==
  IF re = <<>> THEN text = <<>>
  ELSE IF Len(re) >= 2 /\ re[2] = "*"
  THEN \/ regexTest(SubSeq(re, 3, Len(re)), text)
       \/ /\ text # <<>>
          /\ atomMatches(re[1], Head(text))
          /\ regexTest(re, Tail(text))
  ELSE /\ text # <<>>
       /\ atomMatches(re[1], Head(text))
       /\ regexTest(Tail(re), Tail(text))

\* `${image.name}:${image.tag}`
fullName(image) == image.name \o <<":">> \o image.tag

\* BulkScanService.applyExcludePatterns
applyExcludePatterns(images, excludePatterns) ==
  IF excludePatterns = <<>> THEN images
  ELSE SelectSeq(images, LAMBDA image :
         ~\E k \in 1..Len(excludePatterns) :
             regexTest(regexPattern(excludePatterns[k]), fullName(image)))

\* the inventory, in the order findMany returns it (by name, then tag)
PatternChar == {"a", ".", ":", "*", "?"}
Patterns == StringsUpTo(PatternChar, MaxPatternLen) \ {<<>>}
Inventory ==
  <<[name |-> <<"a">>, tag |-> <<".">>], [name |-> <<"a">>, tag |-> <<".", ".">>],
    [name |-> <<"a">>, tag |-> <<".", "a">>], [name |-> <<"a">>, tag |-> <<"a">>],
    [name |-> <<"a">>, tag |-> <<"a", ".">>], [name |-> <<"a">>, tag |-> <<"a", "a">>]>>

\* the images findMany may return: up to MaxImages of the inventory, in order
Selection(inv) ==
  LET picks == {P \in SUBSET (1..Len(inv)) : Cardinality(P) <= MaxImages}
      RECURSIVE Pick(_, _)
      Pick(P, i) == IF i > Len(inv) THEN <<>>
                    ELSE (IF i \in P THEN <<inv[i]>> ELSE <<>>) \o Pick(P, i + 1)
  IN {Pick(P, 1) : P \in picks}

\* the scenario: app:v1, app:v2, app:latest with exclude pattern app:latest
App == <<"a", "p", "p">>
ScenarioImages ==
  <<[name |-> App, tag |-> <<"l", "a", "t", "e", "s", "t">>],
    [name |-> App, tag |-> <<"v", "1">>], [name |-> App, tag |-> <<"v", "2">>]>>
ScenarioExclude == App \o <<":", "l", "a", "t", "e", "s", "t">>

\* --------------------------------------------------------- executeBulkScan
\* the scanner state, left alone by the orchestrators' own persistence steps
scannerVars == <<jobs, variants, tracker, qPending, qRunning, clock, reqPrio, enqAt,
                 waited, request, svc, limiter, dbStatus,
                 events, releases, dispatched, startPc, startRet, execPc,
                 execErr, thrownRunning, cancels, faults>>

\* Array.prototype.slice(0, k) of a list of n elements keeps this many
sliceEnd(n, k) == IF k >= 0 THEN (IF k < n THEN k ELSE n)
                  ELSE (IF n + k > 0 THEN n + k ELSE 0)

\* options.maxImages ? matchingImages.slice(0, maxImages) : matchingImages
limitImages(matching, maxImages) ==
  IF maxImages = NoMax \/ maxImages = 0 THEN matching
  ELSE SubSeq(matching, 1, sliceEnd(Len(matching), maxImages))

\* executeBulkScan is called: findMatchingImages awaits prisma.image.findMany,
\* which is going to return `images`
ExecuteBulkScan(images, exclude, maxImages) ==
  /\ bulkReq.pc = "idle"
  /\ batch.status = "NONE"
  /\ bulkReq' = [bulkReq EXCEPT !.pc = "find", !.candidates = images,
                                !.exclude = exclude, !.maxImages = maxImages]
  /\ UNCHANGED <<scannerVars, batch, items, bulkLoop, bulkCancel, history, schedLoop, monitor>>

\* findMany resolved: the exclude patterns are applied; with no image left
\* executeBulkScan throws, otherwise it awaits bulkScanBatch.create
BulkFindReturn ==
  /\ bulkReq.pc = "find"
  /\ LET matching == applyExcludePatterns(bulkReq.candidates, bulkReq.exclude)
     IN bulkReq' = [bulkReq EXCEPT !.matching = matching,
                      !.pc = IF Len(matching) = 0 THEN "threw" ELSE "create",
                      !.error = IF Len(matching) = 0 THEN "No images found" ELSE @]
  /\ UNCHANGED <<scannerVars, batch, items, bulkLoop, bulkCancel, history, schedLoop, monitor>>

\* findMany or bulkScanBatch.create rejected: executeBulkScan rejects
BulkResolveThrow ==
  /\ bulkReq.pc \in {"find", "create"}
  /\ bulkReq' = [bulkReq EXCEPT !.pc = "threw", !.error = "rejected"]
  /\ UNCHANGED <<scannerVars, batch, items, bulkLoop, bulkCancel, history, schedLoop, monitor>>

\* the batch record was created RUNNING for the capped list:
\* queueScansInBackground runs up to its first startScan call and
\* executeBulkScan returns totalImages
BulkCreateReturn ==
  /\ bulkReq.pc = "create"
  /\ bulkLoop.pc = "idle"
  /\ LET limitedImages == limitImages(bulkReq.matching, bulkReq.maxImages)
     IN /\ batch' = [status |-> "RUNNING", error |-> NoError,
                     total |-> Len(limitedImages)]
        /\ bulkReq' = [bulkReq EXCEPT !.pc = "returned",
                                      !.totalImages = Len(limitedImages)]
        /\ bulkLoop' = IF Len(limitedImages) = 0
                       THEN [bulkLoop EXCEPT !.pc = "complete"]
                       ELSE [bulkLoop EXCEPT !.pc = "submit", !.i = 1]
  /\ UNCHANGED <<scannerVars, items, bulkCancel, history, schedLoop, monitor>>

\* the exclude patterns applied to what the inventory returns
NextExclude ==
  \/ \E images \in Selection(Inventory) \cup {ScenarioImages},
        pattern \in Patterns \cup {ScenarioExclude} :
        ExecuteBulkScan(images, <<pattern>>, NoMax)
  \/ \E images \in Selection(Inventory) : ExecuteBulkScan(images, <<>>, NoMax)
  \/ BulkFindReturn

SpecExclude == Init /\ [][NextExclude]_vars

\* ------------------------------------------------- bulk batch orchestrator
\* executeBulkScan: the images are resolved and capped, the batch record is
\* created RUNNING, and queueScansInBackground runs up to the first startScan
\* call, which is left awaiting initializeScanRecord
BulkCreate(n) ==
  /\ batch.status = "NONE"
  /\ bulkLoop.pc = "idle"
  /\ batch' = [status |-> "RUNNING", error |-> NoError, total |-> n]
  /\ bulkLoop' = [bulkLoop EXCEPT !.pc = "submit", !.i = 1]
  /\ UNCHANGED <<scannerVars, bulkReq, items, bulkCancel, history, schedLoop, monitor>>

\* executeQueuedScans issuing startScan for the next image without awaiting
\* the submission that is still in flight
BulkSubmitWithoutAwait(r) ==
  /\ \/ bulkLoop.pc = "submit"
     \/ bulkLoop.pc = "starting" /\ bulkLoop.i < batch.total
  /\ StartScan(r, -1)
  /\ bulkLoop' = [bulkLoop EXCEPT !.pc = "starting", !.req = r,
                                  !.i = IF bulkLoop.pc = "starting" THEN @ + 1 ELSE @]
  /\ UNCHANGED <<batch, bulkReq, items, bulkCancel, history, schedLoop, monitor>>

\* executeQueuedScans: startScan(scanRequest, -1) for the current image
BulkSubmit(r) ==
  /\ bulkLoop.pc = "submit"
  /\ StartScan(r, -1)
  /\ bulkLoop' = [bulkLoop EXCEPT !.pc = "starting", !.req = r]
  /\ UNCHANGED <<batch, bulkReq, items, bulkCancel, history, schedLoop, monitor>>

BulkSubmitThrow(r) ==
  /\ bulkLoop.pc = "submit"
  /\ StartInitThrow(r)
  /\ bulkLoop' = [bulkLoop EXCEPT !.pc = "starting", !.req = r]
  /\ UNCHANGED <<batch, bulkReq, items, bulkCancel, history, schedLoop, monitor>>

\* startScan resolved: bulkScanItem.create is awaited
BulkStartResolved ==
  /\ bulkLoop.pc = "starting"
  /\ startPc[bulkLoop.req] = "returned"
  /\ bulkLoop' = [bulkLoop EXCEPT !.pc = "link"]
  /\ UNCHANGED <<scannerVars, batch, bulkReq, items, bulkCancel, history, schedLoop, monitor>>

\* startScan rejected: the catch block awaits prisma.scan.create (placeholder)
BulkStartRejected ==
  /\ bulkLoop.pc = "starting"
  /\ startPc[bulkLoop.req] = "rejected"
  /\ bulkLoop' = [bulkLoop EXCEPT !.pc = "placeholder"]
  /\ UNCHANGED <<scannerVars, batch, bulkReq, items, bulkCancel, history, schedLoop, monitor>>

\* the end of one iteration: the counter is incremented and the loop either
\* calls startScan for the next image or returns to queueScansInBackground,
\* which awaits the COMPLETED update
bulkAdvanceAbortsOnFailure(l, n, result) ==
  LET l1 == [l EXCEPT !.log = Append(@, [result |-> result, req |-> l.req,
                                         phFault |-> l.phFault]),
                      !.phFault = FALSE,
                      !.successful = IF result = "ok" THEN @ + 1 ELSE @,
                      !.failed = IF result = "failed" THEN @ + 1 ELSE @]
  IN IF l.i < n /\ result = "ok"
     THEN [l1 EXCEPT !.i = @ + 1, !.pc = "submit", !.req = 0]
     ELSE [l1 EXCEPT !.pc = "complete"]

bulkAdvance(l, n, result) ==
  LET l1 == [l EXCEPT !.log = Append(@, [result |-> result, req |-> l.req,
                                         phFault |-> l.phFault]),
                      !.phFault = FALSE,
                      !.successful = IF result = "ok" THEN @ + 1 ELSE @,
                      !.failed = IF result = "failed" THEN @ + 1 ELSE @]
  IN IF l.i < n
     THEN [l1 EXCEPT !.i = @ + 1, !.pc = "submit", !.req = 0]
     ELSE [l1 EXCEPT !.pc = "complete"]

\* a persistence write of the orchestrator rejects
OrchFaults == bulkLoop.faults + bulkCancel.faults + schedLoop.faults + monitor.faults

bulkFault(l) == [l EXCEPT !.faults = @ + 1]

\* bulkScanItem.create resolved: the scan is linked into the batch
BulkLinkReturn ==
  /\ bulkLoop.pc = "link"
  /\ items' = Append(items, [image |-> bulkLoop.i, req |-> bulkLoop.req,
                             status |-> "RUNNING"])
  /\ bulkLoop' = bulkAdvance(bulkLoop, batch.total, "ok")
  /\ UNCHANGED <<scannerVars, batch, bulkReq, bulkCancel, history, schedLoop, monitor>>

\* bulkScanItem.create rejected: the catch block awaits prisma.scan.create
BulkLinkThrow ==
  /\ bulkLoop.pc = "link"
  /\ OrchFaults < MaxOrchFaults
  /\ bulkLoop' = [bulkFault(bulkLoop) EXCEPT !.pc = "placeholder"]
  /\ UNCHANGED <<scannerVars, batch, bulkReq, items, bulkCancel, history, schedLoop, monitor>>

\* the FAILED placeholder scan was created: its bulkScanItem.create is awaited
BulkPlaceholderReturn ==
  /\ bulkLoop.pc = "placeholder"
  /\ bulkLoop' = [bulkLoop EXCEPT !.pc = "placeholderItem"]
  /\ UNCHANGED <<scannerVars, batch, bulkReq, items, bulkCancel, history, schedLoop, monitor>>

\* prisma.scan.create rejected: dbError is logged, the image is counted failed
BulkPlaceholderThrow ==
  /\ bulkLoop.pc = "placeholder"
  /\ OrchFaults < MaxOrchFaults
  /\ bulkLoop' = bulkAdvance([bulkFault(bulkLoop) EXCEPT !.phFault = TRUE],
                             batch.total, "failed")
  /\ UNCHANGED <<scannerVars, batch, bulkReq, items, bulkCancel, history, schedLoop, monitor>>

\* the FAILED item was created: the placeholder is linked into the batch
BulkPlaceholderItemReturn ==
  /\ bulkLoop.pc = "placeholderItem"
  /\ items' = Append(items, [image |-> bulkLoop.i, req |-> 0, status |-> "FAILED"])
  /\ bulkLoop' = bulkAdvance(bulkLoop, batch.total, "failed")
  /\ UNCHANGED <<scannerVars, batch, bulkReq, bulkCancel, history, schedLoop, monitor>>

BulkPlaceholderItemThrow ==
  /\ bulkLoop.pc = "placeholderItem"
  /\ OrchFaults < MaxOrchFaults
  /\ bulkLoop' = bulkAdvance([bulkFault(bulkLoop) EXCEPT !.phFault = TRUE],
                             batch.total, "failed")
  /\ UNCHANGED <<scannerVars, batch, bulkReq, items, bulkCancel, history, schedLoop, monitor>>

\* queueScansInBackground: bulkScanBatch.update(COMPLETED) resolved
BulkCompleteReturn ==
  /\ bulkLoop.pc = "complete"
  /\ batch' = [batch EXCEPT !.status = "COMPLETED"]
  /\ bulkLoop' = [bulkLoop EXCEPT !.pc = "done"]
  /\ UNCHANGED <<scannerVars, bulkReq, items, bulkCancel, history, schedLoop, monitor>>

\* the COMPLETED update rejected: the catch block awaits the FAILED update
BulkCompleteThrow ==
  /\ bulkLoop.pc = "complete"
  /\ OrchFaults < MaxOrchFaults
  /\ bulkLoop' = [bulkFault(bulkLoop) EXCEPT !.pc = "failUpdate"]
  /\ UNCHANGED <<scannerVars, batch, bulkReq, items, bulkCancel, history, schedLoop, monitor>>

BulkFailReturn ==
  /\ bulkLoop.pc = "failUpdate"
  /\ batch' = [batch EXCEPT !.status = "FAILED", !.error = "update failed"]
  /\ bulkLoop' = [bulkLoop EXCEPT !.pc = "done"]
  /\ UNCHANGED <<scannerVars, bulkReq, items, bulkCancel, history, schedLoop, monitor>>

\* the FAILED update rejected too: .catch(console.error) swallows it
BulkFailThrow ==
  /\ bulkLoop.pc = "failUpdate"
  /\ OrchFaults < MaxOrchFaults
  /\ bulkLoop' = [bulkFault(bulkLoop) EXCEPT !.pc = "done"]
  /\ UNCHANGED <<scannerVars, batch, bulkReq, items, bulkCancel, history, schedLoop, monitor>>

\* ---------------------------------------------------------- cancelBulkScan
\* the cancelScan call cancelBulkScan makes for its k-th item
BulkCancelId(k) == MaxCancels + k

\* the requestIds of the batch items whose status is RUNNING, in item order
RunningItemReqs ==
  LET run == SelectSeq(items, LAMBDA it : it.status = "RUNNING")
  IN [j \in 1..Len(run) |-> run[j].req]

\* cancelBulkScan is called: bulkScanBatch.findUnique is awaited
BulkCancelCall ==
  /\ bulkCancel.pc = "idle"
  /\ bulkCancel' = [bulkCancel EXCEPT !.pc = "find"]
  /\ UNCHANGED <<scannerVars, batch, bulkReq, items, bulkLoop, history, schedLoop, monitor>>

BulkCancelFindThrow ==
  /\ bulkCancel.pc = "find"
  /\ OrchFaults < MaxOrchFaults
  /\ bulkCancel' = [bulkCancel EXCEPT !.pc = "threw", !.error = "find failed",
                                      !.faults = @ + 1]
  /\ UNCHANGED <<scannerVars, batch, bulkReq, items, bulkLoop, history, schedLoop, monitor>>

\* findUnique resolved: the two checks, then cancelScan for the first RUNNING
\* item, or the FAILED update when there is none. The batch's creation, the
\* launch of the background loop and the loop's first startScan call are one
\* synchronous run, so the batch is never seen before that call.
BulkCancelFound ==
  /\ bulkCancel.pc = "find"
  /\ bulkLoop.pc = "submit" => bulkLoop.i > 1
  /\ UNCHANGED <<batch, bulkReq, items, bulkLoop, history, schedLoop, monitor>>
  /\ IF batch.status = "NONE"
     THEN /\ bulkCancel' = [bulkCancel EXCEPT !.pc = "threw", !.error = "not found"]
          /\ UNCHANGED scannerVars
     ELSE IF batch.status # "RUNNING"
     THEN /\ bulkCancel' = [bulkCancel EXCEPT !.pc = "threw", !.error = "not running"]
          /\ UNCHANGED scannerVars
     ELSE IF RunningItemReqs = <<>>
     THEN /\ bulkCancel' = [bulkCancel EXCEPT !.pc = "update"]
          /\ UNCHANGED scannerVars
     ELSE /\ bulkCancel' = [bulkCancel EXCEPT !.pc = "cancelling", !.k = 1,
                                              !.targets = RunningItemReqs]
          /\ CancelCall(BulkCancelId(1), RunningItemReqs[1])

\* cancelBulkScan letting a child's rejection escape its loop
BulkCancelChildDoneStopsOnThrow ==
  /\ bulkCancel.pc = "cancelling"
  /\ cancels[BulkCancelId(bulkCancel.k)].pc = "done"
  /\ UNCHANGED <<batch, bulkReq, items, bulkLoop, history, schedLoop, monitor>>
  /\ IF cancels[BulkCancelId(bulkCancel.k)].ret = "throw"
     THEN /\ bulkCancel' = [bulkCancel EXCEPT !.pc = "threw", !.error = "cancel failed"]
          /\ UNCHANGED scannerVars
     ELSE IF bulkCancel.k < Len(bulkCancel.targets)
     THEN /\ bulkCancel' = [bulkCancel EXCEPT !.k = @ + 1]
          /\ CancelCall(BulkCancelId(bulkCancel.k + 1),
                        bulkCancel.targets[bulkCancel.k + 1])
     ELSE /\ bulkCancel' = [bulkCancel EXCEPT !.pc = "update"]
          /\ UNCHANGED scannerVars

\* a child's cancelScan settled (a rejection is caught and logged): cancelScan
\* for the next item, or the FAILED update after the last one
BulkCancelChildDone ==
  /\ bulkCancel.pc = "cancelling"
  /\ cancels[BulkCancelId(bulkCancel.k)].pc = "done"
  /\ UNCHANGED <<batch, bulkReq, items, bulkLoop, history, schedLoop, monitor>>
  /\ IF bulkCancel.k < Len(bulkCancel.targets)
     THEN /\ bulkCancel' = [bulkCancel EXCEPT !.k = @ + 1]
          /\ CancelCall(BulkCancelId(bulkCancel.k + 1),
                        bulkCancel.targets[bulkCancel.k + 1])
     ELSE /\ bulkCancel' = [bulkCancel EXCEPT !.pc = "update"]
          /\ UNCHANGED scannerVars

\* bulkScanBatch.update(FAILED, 'Cancelled by user') resolved
BulkCancelUpdateReturn ==
  /\ bulkCancel.pc = "update"
  /\ batch' = [batch EXCEPT !.status = "FAILED", !.error = "Cancelled by user"]
  /\ bulkCancel' = [bulkCancel EXCEPT !.pc = "returned"]
  /\ UNCHANGED <<scannerVars, bulkReq, items, bulkLoop, history, schedLoop, monitor>>

BulkCancelUpdateThrow ==
  /\ bulkCancel.pc = "update"
  /\ OrchFaults < MaxOrchFaults
  /\ bulkCancel' = [bulkCancel EXCEPT !.pc = "threw", !.error = "update failed",
                                      !.faults = @ + 1]
  /\ UNCHANGED <<scannerVars, batch, bulkReq, items, bulkLoop, history, schedLoop, monitor>>

\* one bulk batch: its background submission loop, the scans it starts, and
\* one cancelBulkScan call
NextBulk ==
  \/ \E n \in Image : BulkCreate(n)
  \/ \E r \in Image : BulkSubmit(r)
  \/ \E r \in Image : BulkSubmitThrow(r)
  \/ BulkStartResolved
  \/ BulkStartRejected
  \/ BulkLinkReturn
  \/ BulkLinkThrow
  \/ BulkPlaceholderReturn
  \/ BulkPlaceholderThrow
  \/ BulkPlaceholderItemReturn
  \/ BulkPlaceholderItemThrow
  \/ BulkCompleteReturn
  \/ BulkCompleteThrow
  \/ BulkFailReturn
  \/ BulkFailThrow
  \/ BulkCancelCall
  \/ BulkCancelFindThrow
  \/ BulkCancelFound
  \/ BulkCancelChildDone
  \/ BulkCancelUpdateReturn
  \/ BulkCancelUpdateThrow
  \/ \E r \in Image : StartPosition(r)
  \/ \E r \in Image : StartPersistReturn(r)
  \/ \E r \in Image : StartPersistThrow(r)
  \/ \E r \in Image : DispatcherReturn(r)
  \/ \E r \in Image : DispatcherThrow(r)
  \/ \E r \in Image : LoadReturn(r)
  \/ \E r \in Image : UploadReturn(r, FALSE)
  \/ \E r \in Image : CatchPersistReturn(r)
  \/ \E r \in Image : Boundary(r)
  \/ \E c \in AllCancelId : CancelPersistReturn(c)
  \/ \E c \in AllCancelId : CancelPersistThrow(c)
  \/ \E c \in AllCancelId : CancelCompleteReturn(c)

SpecBulk == Init /\ [][NextBulk]_vars

\* one executeBulkScan call, from its request to the end of the submission
\* loop; the scans it starts are left with their Dispatcher
MaxImagesChoice == {NoMax} \cup (-1..(MaxImages + 1))
ExcludeChoice == {<<>>, <<<<"a", ":", "a", "*">>>>}

NextResolve ==
  \/ \E images \in Selection(Inventory), exclude \in ExcludeChoice,
        maxImages \in MaxImagesChoice : ExecuteBulkScan(images, exclude, maxImages)
  \/ BulkFindReturn
  \/ BulkResolveThrow
  \/ BulkCreateReturn
  \/ \E r \in Image : BulkSubmit(r)
  \/ \E r \in Image : BulkSubmitThrow(r)
  \/ BulkStartResolved
  \/ BulkStartRejected
  \/ BulkLinkReturn
  \/ BulkPlaceholderReturn
  \/ BulkPlaceholderItemReturn
  \/ BulkCompleteReturn
  \/ \E r \in Image : StartPosition(r)
  \/ \E r \in Image : StartPersistReturn(r)

SpecResolve == Init /\ [][NextResolve]_vars

\* ---------------------------------------------------- scheduled execution
\* the POST handler created the history record PENDING and called
\* startScanExecution, which awaits the update to RUNNING
SchedCreate(n) ==
  /\ history.status = "NONE"
  /\ schedLoop.pc = "idle"
  /\ history' = [status |-> "PENDING", total |-> n, scannedImages |-> 0,
                 failedImages |-> 0, error |-> NoError]
  /\ schedLoop' = [schedLoop EXCEPT !.pc = "run"]
  /\ UNCHANGED <<scannerVars, batch, bulkReq, items, bulkLoop, bulkCancel, monitor>>

\* the history is RUNNING: scheduledScanResult.create is awaited for image 1
SchedRunReturn ==
  /\ schedLoop.pc = "run"
  /\ history' = [history EXCEPT !.status = "RUNNING"]
  /\ schedLoop' = [schedLoop EXCEPT !.pc = "result", !.i = 1]
  /\ UNCHANGED <<scannerVars, batch, bulkReq, items, bulkLoop, bulkCancel, monitor>>

\* an awaited write outside the loop's try block rejected: startScanExecution
\* rejects and the caller's .catch issues the update to FAILED
SchedEscape(at) ==
  /\ schedLoop.pc = at
  /\ OrchFaults < MaxOrchFaults
  /\ schedLoop' = [schedLoop EXCEPT !.pc = "escaped", !.faults = @ + 1]
  /\ UNCHANGED <<scannerVars, batch, bulkReq, items, bulkLoop, bulkCancel, history, monitor>>

SchedRunThrow == SchedEscape("run")
SchedCatchThrow == SchedEscape("catchUpdate")
SchedFinalThrow == SchedEscape("final")

SchedEscapeReturn ==
  /\ schedLoop.pc = "escaped"
  /\ history' = [history EXCEPT !.status = "FAILED", !.error = "write failed"]
  /\ schedLoop' = [schedLoop EXCEPT !.pc = "done"]
  /\ UNCHANGED <<scannerVars, batch, bulkReq, items, bulkLoop, bulkCancel, monitor>>

SchedEscapeThrow ==
  /\ schedLoop.pc = "escaped"
  /\ OrchFaults < MaxOrchFaults
  /\ schedLoop' = [schedLoop EXCEPT !.pc = "done", !.faults = @ + 1]
  /\ UNCHANGED <<scannerVars, batch, bulkReq, items, bulkLoop, bulkCancel, history, monitor>>

\* an awaited write inside the loop's try block rejected: the catch block
\* increments failedCount and awaits the update of failedImages
SchedCatch(at) ==
  /\ schedLoop.pc = at
  /\ OrchFaults < MaxOrchFaults
  /\ schedLoop' = [schedLoop EXCEPT !.pc = "catchUpdate", !.faults = @ + 1,
                                    !.failedCount = @ + 1]
  /\ UNCHANGED <<scannerVars, batch, bulkReq, items, bulkLoop, bulkCancel, history, monitor>>

SchedResultThrow == SchedCatch("result")
SchedFindThrow == SchedCatch("find")
SchedLinkThrow == SchedCatch("link")
SchedProgressThrow == SchedCatch("progress")

\* the result record was created: startScan(scanRequest) is called
SchedResultReturn ==
  /\ schedLoop.pc = "result"
  /\ schedLoop' = [schedLoop EXCEPT !.pc = "submit"]
  /\ UNCHANGED <<scannerVars, batch, bulkReq, items, bulkLoop, bulkCancel, history, monitor>>

\* startScan without a priority argument: the job is enqueued as interactive
SchedSubmit(r) ==
  /\ schedLoop.pc = "submit"
  /\ StartScan(r, 0)
  /\ schedLoop' = [schedLoop EXCEPT !.pc = "starting", !.req = r]
  /\ UNCHANGED <<batch, bulkReq, items, bulkLoop, bulkCancel, history, monitor>>

SchedSubmitThrow(r) ==
  /\ schedLoop.pc = "submit"
  /\ StartInitThrow(r)
  /\ schedLoop' = [schedLoop EXCEPT !.pc = "starting", !.req = r]
  /\ UNCHANGED <<batch, bulkReq, items, bulkLoop, bulkCancel, history, monitor>>

\* startScan resolved with its requestId: prisma.scan.findUnique is awaited
SchedStartResolved ==
  /\ schedLoop.pc = "starting"
  /\ startPc[schedLoop.req] = "returned"
  /\ schedLoop' = [schedLoop EXCEPT !.pc = "find"]
  /\ UNCHANGED <<scannerVars, batch, bulkReq, items, bulkLoop, bulkCancel, history, monitor>>

\* startScan rejected: the catch block
SchedStartRejected ==
  /\ schedLoop.pc = "starting"
  /\ startPc[schedLoop.req] = "rejected"
  /\ schedLoop' = [schedLoop EXCEPT !.pc = "catchUpdate", !.failedCount = @ + 1]
  /\ UNCHANGED <<scannerVars, batch, bulkReq, items, bulkLoop, bulkCancel, history, monitor>>

\* the scan record was found: the result's update to RUNNING is awaited
SchedFindReturn ==
  /\ schedLoop.pc = "find"
  /\ schedLoop' = [schedLoop EXCEPT !.pc = "link"]
  /\ UNCHANGED <<scannerVars, batch, bulkReq, items, bulkLoop, bulkCancel, history, monitor>>

\* the result is linked: the scan is tracked, scannedCount is incremented and
\* the progress update of the history is awaited
SchedLinkReturn ==
  /\ schedLoop.pc = "link"
  /\ schedLoop' = [schedLoop EXCEPT !.pc = "progress", !.scannedCount = @ + 1,
                                    !.tracked = @ \cup {schedLoop.req}]
  /\ UNCHANGED <<scannerVars, batch, bulkReq, items, bulkLoop, bulkCancel, history, monitor>>

\* ------------------------------------------------ monitorScanCompletion
maxAttempts == 180
TimeoutMessage == "Scan monitoring timeout after 15 minutes"

\* the call: the interval is armed; the tracked scans' results are RUNNING,
\* every other result record of the history was left PENDING
monitorScanCompletion(tracked) ==
  [NoMonitor EXCEPT !.started = TRUE, !.active = TRUE, !.scanResults = tracked,
                    !.results = [r \in Image |-> IF r \in tracked THEN "RUNNING"
                                                 ELSE "PENDING"]]

\* the tracked scan after k (scanResults is walked in the order of the ids),
\* 0 when there is none
nextScan(m, k) ==
  IF \E r \in m.scanResults : r > k
  THEN CHOOSE r \in m.scanResults : r > k /\ \A q \in m.scanResults : q > k => r <= q
  ELSE 0

\* after the for loop: the interval is cleared and the history is read when
\* every scan was complete or the attempts are used up, else the callback ends
afterLoop(m, c, cb) ==
  IF cb.allCompleted \/ m.attempts >= maxAttempts
  THEN [m EXCEPT !.active = FALSE, !.callbacks[c] = [cb EXCEPT !.pc = "history", !.scan = 0]]
  ELSE [m EXCEPT !.callbacks[c] = NoCallback]

\* the loop goes on with the scan after cb.scan
loopNext(m, c, cb) ==
  IF nextScan(m, cb.scan) # 0
  THEN [m EXCEPT !.callbacks[c] = [cb EXCEPT !.pc = "find", !.scan = nextScan(m, cb.scan),
                                             !.read = "NONE"]]
  ELSE afterLoop(m, c, cb)

\* the interval fires: attempts is incremented and the first scan is looked up
MonitorTick(c) ==
  /\ monitor.active
  /\ monitor.callbacks[c].pc = "free"
  /\ \A d \in Callback : d < c => monitor.callbacks[d].pc # "free"
  /\ monitor' = loopNext([monitor EXCEPT !.attempts = @ + 1], c, NoCallback)
  /\ UNCHANGED <<scannerVars, batch, bulkReq, items, bulkLoop, bulkCancel, history, schedLoop>>

\* prisma.scan.findUnique resolved: a SUCCESS or FAILED scan has its result
\* updated, any other status clears allCompleted
MonitorFindReturn(c) ==
  LET cb == monitor.callbacks[c] IN
  /\ cb.pc = "find"
  /\ monitor' = IF dbStatus[cb.scan] \in {"SUCCESS", "FAILED"}
                THEN [monitor EXCEPT !.callbacks[c] =
                        [cb EXCEPT !.pc = "update", !.read = dbStatus[cb.scan]]]
                ELSE loopNext(monitor, c, [cb EXCEPT !.allCompleted = FALSE])
  /\ UNCHANGED <<scannerVars, batch, bulkReq, items, bulkLoop, bulkCancel, history, schedLoop>>

\* scheduledScanResult.update resolved
MonitorUpdateReturn(c) ==
  LET cb == monitor.callbacks[c] IN
  /\ cb.pc = "update"
  /\ monitor' = loopNext([monitor EXCEPT !.results[cb.scan] = cb.read], c, cb)
  /\ UNCHANGED <<scannerVars, batch, bulkReq, items, bulkLoop, bulkCancel, history, schedLoop>>

\* the status of the final update
finalStatus(attempts, totalFailedCount, totalImages) ==
  IF attempts >= maxAttempts THEN "FAILED"
  ELSE IF totalFailedCount = totalImages THEN "FAILED"
  ELSE IF totalFailedCount > 0 THEN "PARTIAL"
  ELSE "COMPLETED"

\* scheduledScanHistory.findUnique resolved: the counts are taken from the
\* result records and the final update is issued
MonitorHistoryReturn(c) ==
  LET cb == monitor.callbacks[c]
      successCount == Cardinality({r \in Image : monitor.results[r] = "SUCCESS"})
      totalFailedCount == Cardinality({r \in Image : monitor.results[r] = "FAILED"})
  IN
  /\ cb.pc = "history"
  /\ monitor' = [monitor EXCEPT !.callbacks[c] =
       [cb EXCEPT !.pc = "write",
                  !.status = finalStatus(monitor.attempts, totalFailedCount, history.total),
                  !.error = IF monitor.attempts >= maxAttempts THEN TimeoutMessage
                            ELSE NoError,
                  !.success = successCount, !.failed = totalFailedCount]]
  /\ UNCHANGED <<scannerVars, batch, bulkReq, items, bulkLoop, bulkCancel, history, schedLoop>>

\* the final update resolved: the callback ends
MonitorWriteReturn(c) ==
  LET cb == monitor.callbacks[c] IN
  /\ cb.pc = "write"
  /\ history' = [history EXCEPT !.status = cb.status, !.error = cb.error,
                                !.scannedImages = cb.success, !.failedImages = cb.failed]
  /\ monitor' = [monitor EXCEPT !.callbacks[c] = NoCallback]
  /\ UNCHANGED <<scannerVars, batch, bulkReq, items, bulkLoop, bulkCancel, schedLoop>>

\* an awaited persistence call of the callback rejected: the catch block
\* logs, clears the interval and the callback ends
MonitorThrow(c) ==
  /\ monitor.callbacks[c].pc \in {"find", "update", "history", "write"}
  /\ OrchFaults < MaxOrchFaults
  /\ monitor' = [monitor EXCEPT !.active = FALSE, !.callbacks[c] = NoCallback,
                                !.faults = @ + 1]
  /\ UNCHANGED <<scannerVars, batch, bulkReq, items, bulkLoop, bulkCancel, history, schedLoop>>

\* the next iteration, or the end of the loop: monitorScanCompletion is
\* started and the final status update is awaited
schedAdvance(l, n) ==
  IF l.i < n
  THEN [l EXCEPT !.i = @ + 1, !.pc = "result", !.req = 0]
  ELSE [l EXCEPT !.pc = "final"]

SchedProgressReturn ==
  /\ schedLoop.pc = "progress"
  /\ history' = [history EXCEPT !.scannedImages = schedLoop.scannedCount,
                                !.failedImages = schedLoop.failedCount]
  /\ schedLoop' = schedAdvance(schedLoop, history.total)
  /\ monitor' = IF schedLoop.i < history.total THEN monitor
                ELSE monitorScanCompletion(schedLoop.tracked)
  /\ UNCHANGED <<scannerVars, batch, bulkReq, items, bulkLoop, bulkCancel>>

\* the catch block's update of failedImages resolved
SchedCatchReturn ==
  /\ schedLoop.pc = "catchUpdate"
  /\ history' = [history EXCEPT !.failedImages = schedLoop.failedCount]
  /\ schedLoop' = schedAdvance(schedLoop, history.total)
  /\ monitor' = IF schedLoop.i < history.total THEN monitor
                ELSE monitorScanCompletion(schedLoop.tracked)
  /\ UNCHANGED <<scannerVars, batch, bulkReq, items, bulkLoop, bulkCancel>>

\* the update after the loop: FAILED when nothing was started, else RUNNING
SchedFinalReturn ==
  /\ schedLoop.pc = "final"
  /\ history' = [history EXCEPT
       !.status = IF schedLoop.failedCount = history.total \/ schedLoop.scannedCount = 0
                  THEN "FAILED" ELSE "RUNNING",
       !.scannedImages = schedLoop.scannedCount,
       !.failedImages = schedLoop.failedCount]
  /\ schedLoop' = [schedLoop EXCEPT !.pc = "done"]
  /\ UNCHANGED <<scannerVars, batch, bulkReq, items, bulkLoop, bulkCancel, monitor>>

\* one scheduled execution: its submission loop and the scans it starts
NextSched ==
  \/ \E n \in Image : SchedCreate(n)
  \/ SchedRunReturn
  \/ SchedRunThrow
  \/ SchedEscapeReturn
  \/ SchedEscapeThrow
  \/ SchedResultReturn
  \/ SchedResultThrow
  \/ \E r \in Image : SchedSubmit(r)
  \/ \E r \in Image : SchedSubmitThrow(r)
  \/ SchedStartResolved
  \/ SchedStartRejected
  \/ SchedFindReturn
  \/ SchedFindThrow
  \/ SchedLinkReturn
  \/ SchedLinkThrow
  \/ SchedProgressReturn
  \/ SchedProgressThrow
  \/ SchedCatchReturn
  \/ SchedCatchThrow
  \/ SchedFinalReturn
  \/ SchedFinalThrow
  \/ \E r \in Image : StartPosition(r)
  \/ \E r \in Image : StartPersistReturn(r)
  \/ \E r \in Image : StartPersistThrow(r)
  \/ \E r \in Image : DispatcherReturn(r)
  \/ \E r \in Image : DispatcherThrow(r)
  \/ \E r \in Image : LoadReturn(r)
  \/ \E r \in Image : UploadReturn(r, FALSE)
  \/ \E r \in Image : CatchPersistReturn(r)
  \/ \E r \in Image : Boundary(r)

SpecSched == Init /\ [][NextSched]_vars

\* a scheduled execution with its completion monitor
NextMonitor ==
  \/ NextSched
  \/ \E c \in Callback : MonitorTick(c)
  \/ \E c \in Callback : MonitorFindReturn(c)
  \/ \E c \in Callback : MonitorUpdateReturn(c)
  \/ \E c \in Callback : MonitorHistoryReturn(c)
  \/ \E c \in Callback : MonitorWriteReturn(c)
  \/ \E c \in Callback : MonitorThrow(c)

SpecMonitor == Init /\ [][NextMonitor]_vars

\* a scheduled execution whose child scans may be cancelled, with its
\* completion monitor; no persistence call is rejected
NextMonitorCancel ==
  \/ \E n \in Image : SchedCreate(n)
  \/ SchedRunReturn
  \/ SchedResultReturn
  \/ \E r \in Image : SchedSubmit(r)
  \/ SchedStartResolved
  \/ SchedFindReturn
  \/ SchedLinkReturn
  \/ SchedProgressReturn
  \/ SchedFinalReturn
  \/ \E r \in Image : StartPosition(r)
  \/ \E r \in Image : StartPersistReturn(r)
  \/ \E r \in Image : DispatcherReturn(r)
  \/ \E r \in Image : LoadReturn(r)
  \/ \E r \in Image : UploadReturn(r, FALSE)
  \/ \E c \in CancelId, r \in Image :
        FirstUnused(c) /\ CancelCall(c, r) /\ UNCHANGED orchVars
  \/ \E c \in CancelId : CancelPersistReturn(c)
  \/ \E c \in CancelId : CancelCompleteReturn(c)
  \/ \E c \in Callback : MonitorTick(c)
  \/ \E c \in Callback : MonitorFindReturn(c)
  \/ \E c \in Callback : MonitorUpdateReturn(c)
  \/ \E c \in Callback : MonitorHistoryReturn(c)
  \/ \E c \in Callback : MonitorWriteReturn(c)

SpecMonitorCancel == Init /\ [][NextMonitorCancel]_vars

Next ==
  \/ \E r \in LiveReq, p \in Priorities : StartScan(r, p) /\ UNCHANGED orchVars
  \/ \E r \in LiveReq : StartInitThrow(r) /\ UNCHANGED orchVars
  \/ \E r \in LiveReq : StartPosition(r)
  \/ \E r \in LiveReq : StartPersistReturn(r)
  \/ \E r \in LiveReq : StartPersistThrow(r)
  \/ \E r \in LiveReq : DispatcherReturn(r)
  \/ \E r \in LiveReq : DispatcherThrow(r)
  \/ \E r \in LiveReq : LoadReturn(r)
  \/ \E r \in LiveReq : LoadThrow(r)
  \/ \E r \in LiveReq, severe \in BOOLEAN : UploadReturn(r, severe)
  \/ \E r \in LiveReq : UploadThrow(r)
  \/ \E r \in LiveReq : NotifyReturn(r)
  \/ \E r \in LiveReq : NotifyThrow(r)
  \/ \E r \in LiveReq : CatchPersistReturn(r)
  \/ \E r \in LiveReq : CatchPersistThrow(r)
  \/ \E r \in LiveReq : Boundary(r)
  \/ \E c \in CancelId, r \in LiveReq :
        FirstUnused(c) /\ CancelCall(c, r) /\ UNCHANGED orchVars
  \/ \E c \in CancelId : CancelPersistReturn(c)
  \/ \E c \in CancelId : CancelPersistThrow(c)
  \/ \E c \in CancelId : CancelCompleteReturn(c)
  \/ \E r \in LiveReq : DispatcherProgress(r)

\* The queue under load: more submissions than slots, made by one caller that
\* awaits each startScan before issuing the next; scans succeed or fail.
Submitted(r) == \A q \in Req : q < r => startPc[q] \in {"returned", "rejected"}

NextQ ==
  \/ \E r \in QueueReq, p \in Priorities :
        Submitted(r) /\ StartScan(r, p) /\ UNCHANGED orchVars
  \/ \E r \in QueueReq : StartPosition(r)
  \/ \E r \in QueueReq : StartPersistReturn(r)
  \/ \E r \in QueueReq : DispatcherReturn(r)
  \/ \E r \in QueueReq : DispatcherThrow(r)
  \/ \E r \in QueueReq : LoadReturn(r)
  \/ \E r \in QueueReq : UploadReturn(r, FALSE)
  \/ \E r \in QueueReq : CatchPersistReturn(r)
  \/ \E r \in QueueReq : Boundary(r)

Spec == Init /\ [][Next]_vars
SpecQ == Init /\ [][NextQ]_vars

\* --------------------------------------------- further service instances
\* new ScannerService() outside getInstance
Construct ==
  /\ svc.created < MaxInstances
  /\ svc' = construct(svc)
  /\ UNCHANGED <<jobs, variants, tracker, qPending, qRunning, clock, reqPrio, enqAt,
                 waited, request, limiter, orchVars, dbStatus, events, releases, dispatched,
                 startPc, startRet, execPc, execErr, thrownRunning, cancels, faults>>

\* scans submitted and run while further instances are constructed
NextInst ==
  \/ Construct
  \/ \E r \in LiveReq, p \in Priorities : StartScan(r, p) /\ UNCHANGED orchVars
  \/ \E r \in LiveReq : StartPosition(r)
  \/ \E r \in LiveReq : StartPersistReturn(r)
  \/ \E r \in LiveReq : DispatcherReturn(r)
  \/ \E r \in LiveReq : DispatcherThrow(r)
  \/ \E r \in LiveReq : LoadReturn(r)
  \/ \E r \in LiveReq : UploadReturn(r, FALSE)
  \/ \E r \in LiveReq : CatchPersistReturn(r)
  \/ \E r \in LiveReq : Boundary(r)

SpecInst == Init /\ [][NextInst]_vars

\* the callers of one provider's rate limiter
SpecLimit == Init /\ [][NextLimit]_vars

\* ------------------------------------------------- request id generation
\* generateRequestId joins the clock's second with eight hexadecimal digits of
\* Math.random(); nothing compares the result with the ids already in
\* globalJobs, so a call may be handed the id of an earlier job.  Here the
\* earlier startScan call has resolved and its executeScan task has finished.
StartScanReuse(r, p) ==
  /\ startPc[r] \in {"returned", "rejected"}
  /\ execPc[r] = "done"
  /\ clock < MaxStarts
  /\ Commit(startScanEnqueue(Cur, r, p))
  /\ reqPrio' = [reqPrio EXCEPT ![r] = p]
  /\ enqAt' = [enqAt EXCEPT ![r] = clock + 1]
  /\ waited' = [waited EXCEPT ![r] = r \in PendingIds(startScanEnqueue(Cur, r, p).qPending)]
  /\ dbStatus' = [dbStatus EXCEPT ![r] = "CREATED"]
  /\ startPc' = [startPc EXCEPT ![r] = "enqueued"]
  /\ startRet' = [startRet EXCEPT ![r] = NoRet]
  /\ UNCHANGED <<request, svc, limiter, execErr, thrownRunning, cancels, faults>>

NextId ==
  \/ \E r \in LiveReq, p \in Priorities :
        clock < MaxStarts /\ StartScan(r, p) /\ UNCHANGED orchVars
  \/ \E r \in LiveReq, p \in Priorities : StartScanReuse(r, p) /\ UNCHANGED orchVars
  \/ \E r \in LiveReq : StartPosition(r)
  \/ \E r \in LiveReq : StartPersistReturn(r)
  \/ \E r \in LiveReq : DispatcherReturn(r)
  \/ \E r \in LiveReq : DispatcherThrow(r)
  \/ \E r \in LiveReq : LoadReturn(r)
  \/ \E r \in LiveReq : UploadReturn(r, FALSE)
  \/ \E r \in LiveReq : CatchPersistReturn(r)
  \/ \E r \in LiveReq : Boundary(r)

SpecId == Init /\ [][NextId]_vars

\* ------------------------------------------------------ simulated progress
\* the progress a simulation timer reports: below the 90 of finalizeScan
SimValue(t) == IF t = "download" THEN 30 ELSE 70

\* a simulation timer fires: it reports its progress through updateJobStatus
\* while the job is RUNNING and has not got further, and stops otherwise
simTick(s, r, t) ==
  IF s.jobs[r].status # "RUNNING" \/ s.jobs[r].progress >= SimValue(t)
  THEN [s EXCEPT !.tracker.timers[r] = @ \ {t}]
  ELSE [updateJobStatus(s, r, "RUNNING", SimValue(t), NoError)
          EXCEPT !.tracker.simEvents[r] = @ + 1]

SimTick(r, t) ==
  /\ t \in tracker.timers[r]
  /\ Commit(simTick(Cur, r, t))
  /\ UNCHANGED <<reqPrio, enqAt, waited, request, svc, limiter, orchVars, dbStatus, startPc,
                 startRet, execErr, thrownRunning, cancels, faults>>

\* scans with simulated progress and cancellation: the first request is of
\* any kind, the ones behind it are registry scans; the only real progress
\* is the 90 finalizeScan reports
InitP ==
  /\ InitState
  /\ request \in [Req -> ScanRequest]
  /\ \A r \in Req \ {1} : request[r] = RegistryRequest

NextP ==
  \/ \E r \in LiveReq : StartScan(r, 0) /\ UNCHANGED orchVars
  \/ \E r \in LiveReq : StartPosition(r)
  \/ \E r \in LiveReq : StartPersistReturn(r)
  \/ \E r \in LiveReq, t \in {"download", "scanning"} : SimTick(r, t)
  \/ \E r \in LiveReq : DispatcherReturn(r)
  \/ \E r \in LiveReq : DispatcherThrow(r)
  \/ \E r \in LiveReq : LoadReturn(r)
  \/ \E r \in LiveReq : UploadReturn(r, FALSE)
  \/ \E r \in LiveReq : CatchPersistReturn(r)
  \/ \E r \in LiveReq : Boundary(r)
  \/ \E c \in CancelId, r \in LiveReq :
        FirstUnused(c) /\ CancelCall(c, r) /\ UNCHANGED orchVars
  \/ \E c \in CancelId : CancelPersistReturn(c)
  \/ \E c \in CancelId : CancelCompleteReturn(c)

SpecP == InitP /\ [][NextP]_vars

\* ------------------------------------------------------ progress listeners
\* addProgressListener / removeProgressListener delegate to the tracker
addProgressListener(t, l) ==
  IF l \in Registered(t) THEN t ELSE [t EXCEPT !.listeners = Append(@, l)]

removeProgressListener(t, l) ==
  [t EXCEPT !.listeners = SelectSeq(@, LAMBDA x : x # l)]

AddListener(l) ==
  /\ l \notin Registered(tracker)
  /\ tracker' = addProgressListener(tracker, l)
  /\ UNCHANGED <<jobs, variants, qPending, qRunning, clock, reqPrio, enqAt, waited,
                 request, svc, limiter, orchVars, dbStatus, events, releases, dispatched, startPc,
                 startRet, execPc, execErr, thrownRunning, cancels, faults>>

RemoveListener(l) ==
  /\ l \in Registered(tracker)
  /\ tracker' = removeProgressListener(tracker, l)
  /\ UNCHANGED <<jobs, variants, qPending, qRunning, clock, reqPrio, enqAt, waited,
                 request, svc, limiter, orchVars, dbStatus, events, releases, dispatched, startPc,
                 startRet, execPc, execErr, thrownRunning, cancels, faults>>

\* scans observed by listeners that come and go, one of which throws
NextL ==
  \/ \E l \in Subscriber : AddListener(l)
  \/ \E l \in Subscriber : RemoveListener(l)
  \/ \E r \in LiveReq : StartScan(r, 0) /\ UNCHANGED orchVars
  \/ \E r \in LiveReq : StartPosition(r)
  \/ \E r \in LiveReq : StartPersistReturn(r)
  \/ \E r \in LiveReq : DispatcherReturn(r)
  \/ \E r \in LiveReq : DispatcherThrow(r)
  \/ \E r \in LiveReq : LoadReturn(r)
  \/ \E r \in LiveReq : UploadReturn(r, FALSE)
  \/ \E r \in LiveReq : CatchPersistReturn(r)
  \/ \E r \in LiveReq : Boundary(r)

SpecL == Init /\ [][NextL]_vars

\* ------------------------------------------------------------- properties
RunningCancelled(r) == \E c \in CancelId : cancels[c].req = r /\ cancels[c].path = "running"
PendingCancelled(r) == \E c \in CancelId : cancels[c].req = r /\ cancels[c].path = "pending"
CancelInFlight(r) == \E c \in CancelId : cancels[c].req = r /\ cancels[c].pc \notin {"unused", "done"}

\* C1: a job that held a slot has scanQueue.completeScan called for its
\* requestId exactly once: never twice, and once by the time it is terminal
\* and its executeScan and cancelScan tasks have finished.
C1_ReleasedExactlyOnce ==
  \A r \in Req :
    /\ releases[r] <= 1
    /\ (/\ jobs[r].status \in Terminal
        /\ dispatched[r] > 0
        /\ execPc[r] = "done"
        /\ ~CancelInFlight(r)) => releases[r] = 1

\* C2: the only status changes made to a job are PENDING to RUNNING, RUNNING
\* to SUCCESS, RUNNING to FAILED, PENDING to CANCELLED and RUNNING to
\* CANCELLED (a job is created PENDING); none leaves a terminal status.
AllowedTransitions ==
  {<<"NONE", "PENDING">>, <<"NONE", "RUNNING">>, <<"PENDING", "RUNNING">>,
   <<"RUNNING", "SUCCESS">>, <<"RUNNING", "FAILED">>,
   <<"PENDING", "CANCELLED">>, <<"RUNNING", "CANCELLED">>}

C2_ForwardTransitionsOnly ==
  [][\A r \in Req : jobs[r].status # jobs'[r].status =>
        <<jobs[r].status, jobs'[r].status>> \in AllowedTransitions]_vars

\* C3: a job cancelled while RUNNING stays CANCELLED and no RUNNING, SUCCESS
\* or FAILED event follows its CANCELLED event, whatever its Dispatcher does later.
NoEventAfterCancelled(r) ==
  \A i, j \in 1..Len(events[r]) :
    (i < j /\ events[r][i].status = "CANCELLED") => events[r][j].status = "CANCELLED"

C3_LateCompletionIgnored ==
  \A r \in Req : RunningCancelled(r) =>
    jobs[r].status = "CANCELLED" /\ NoEventAfterCancelled(r)

\* C4: the number of jobs whose status is RUNNING never exceeds the limit.
RunningJobs == {r \in Req : jobs[r].status = "RUNNING"}

C4_RunningWithinLimit == Cardinality(RunningJobs) <= Limit

\* C5: when the Dispatcher or a finalize step throws for a RUNNING job, the
\* dispatch boundary leaves the job FAILED with an error message and its slot
\* released, also when persisting the failure throws.
C5_FailureCaughtAndReleased ==
  \A r \in Req : (thrownRunning[r] /\ execPc[r] = "done") =>
    /\ jobs[r].status = "FAILED"
    /\ jobs[r].error # NoError
    /\ r \notin qRunning
    /\ releases[r] >= 1

C5_Witness ==
  \E r \in Req : /\ thrownRunning[r]
                 /\ execPc[r] = "done"
                 /\ execErr[r] = "persist failed"
                 /\ jobs[r].status = "FAILED"

\* C8: a job cancelled while it was waiting in the queue is removed from the
\* queue, is CANCELLED, and no Dispatcher variant is ever invoked for it.
C8_PendingCancelNeverDispatched ==
  \A r \in Req : PendingCancelled(r) =>
    /\ r \notin PendingIds(qPending)
    /\ r \notin qRunning
    /\ jobs[r].status = "CANCELLED"
    /\ dispatched[r] = 0

\* the cancel returned true and the slot holder has since released its slot
C8_Witness ==
  \E c \in CancelId, r2 \in Req :
    /\ cancels[c].path = "pending"
    /\ cancels[c].ret = "true"
    /\ r2 # cancels[c].req
    /\ releases[r2] >= 1
    /\ qRunning = {}

\* C9: cancelScan on an unknown requestId or on a job that is SUCCESS, FAILED
\* or CANCELLED returns false and changes neither the job, the queue, the
\* persisted record nor the emitted events.
CancelCalled(c) == cancels[c].pc = "unused" /\ cancels'[c].pc # "unused"

C9_TerminalCancelIsNoOp ==
  [][\A c \in CancelId :
       (CancelCalled(c) /\ jobs[cancels'[c].req].status \in Terminal \cup {"NONE"}) =>
          /\ cancels'[c].ret = "false"
          /\ UNCHANGED <<jobs, qPending, qRunning, dbStatus, events, releases>>]_vars

C9_Witness ==
  \E c \in CancelId : /\ cancels[c].atCall \in Terminal
                      /\ cancels[c].ret = "false"
                      /\ cancels[c].req \in qRunning

\* C10: cancelScan on a job that is PENDING or RUNNING when called returns
\* true and leaves the job CANCELLED.
C10_ActiveCancelSucceeds ==
  \A c \in CancelId :
    (cancels[c].pc = "done" /\ cancels[c].atCall \in {"PENDING", "RUNNING"}) =>
       cancels[c].ret = "true" /\ cancels[c].atRet = "CANCELLED"

\* ---------------------------------------------------- queue-order properties
\* r leaves the waiting list for a slot in this step
Promoted(r) == r \in PendingIds(qPending) /\ r \in qRunning'
Waiting(q) == q \in PendingIds(qPending)

C11_CancelNeverThrows ==
  \A c \in CancelId : cancels[c].pc = "done" => cancels[c].ret \in {"true", "false"}

\* C12: a scan whose results were loaded and persisted and whose
\* notifyScanComplete call threw ends SUCCESS with its slot released.
NotifyFailed(r) == execErr[r] = "notify failed" /\ execPc[r] = "done"

C12_NotifyFailureHarmless ==
  \A r \in Req : NotifyFailed(r) =>
    /\ jobs[r].status = "SUCCESS"
    /\ r \notin qRunning
    /\ releases[r] >= 1

\* C13: no startScan call creates its job under a requestId for which the
\* registry already holds a job (no job is overwritten by a later submission),
\* and the queue never holds two entries with one requestId.
JobCreated(r) == startPc[r] # "enqueued" /\ startPc'[r] = "enqueued"

C13_RequestIdNeverReused ==
  /\ [](Len(qPending) = Cardinality(PendingIds(qPending)))
  /\ [][\A r \in Req : JobCreated(r) => jobs[r].status = "NONE"]_vars

\* C14: when creating the scan record fails, startScan rejects, the registry
\* gets no job for that request and nothing is enqueued or dispatched.
CreateFailed(r) == startPc[r] = "rejected" /\ dbStatus[r] = "NONE"

C14_CreateFailureLeavesNoJob ==
  \A r \in Req : CreateFailed(r) =>
    /\ jobs[r] = NoJob
    /\ r \notin PendingIds(qPending)
    /\ r \notin qRunning
    /\ enqAt[r] = 0
    /\ dispatched[r] = 0
    /\ events[r] = <<>>

\* the first submission was rejected and a later one is running
C14_Witness ==
  \E r, q \in Req : /\ CreateFailed(r)
                    /\ r < q
                    /\ jobs[q].status = "RUNNING"

\* C15: a released slot is handed to the next waiting job in the same step:
\* no job waits while fewer than Limit jobs hold a slot, and every job that
\* holds a slot has had its started signal fired (its Dispatcher invoked).
C15_FreedSlotReusedAtOnce ==
  /\ Len(qPending) > 0 => Cardinality(qRunning) >= Limit
  /\ \A r \in qRunning : dispatched[r] >= 1 /\ execPc[r] # "none"

\* a job that had to wait holds the slot its predecessor released
C15_Witness ==
  \E r, q \in Req : /\ releases[r] >= 1
                    /\ startRet[q].queued
                    /\ q \in qRunning
                    /\ execPc[q] = "dispatch"

\* ------------------------------------------------ startScan's return value
PositionKnown(r) == startPc[r] \in {"persist", "returned"}
PositionRead(r) == startPc[r] = "enqueued" /\ startPc'[r] # "enqueued"

\* 1-based rank of r among the waiting jobs, by start order
Rank(q, r) ==
  LET e == q[CHOOSE i \in 1..Len(q) : q[i].requestId = r]
  IN 1 + Cardinality({i \in 1..Len(q) : Before(q[i], e)})

\* C16 as stated: startScan returns queued = false when its addToQueue call
\* started the job, and otherwise queued = true with a position of at least 1.
C16_QueuedUnlessStartedAtOnce ==
  \A r \in Req : PositionKnown(r) =>
    /\ startRet[r].queued = waited[r]
    /\ waited[r] => startRet[r].queuePosition >= 1

\* the scenario of C16, for Limit slots and Limit + 1 submissions: the first
\* Limit jobs start at once; the last one waits, is reported queued at
\* position 1 while none of them has completed, and once one has completed it
\* has been started and its position is 0.
FirstWaiting == Limit + 1
OnlyScenarioSubmissions == \A r \in Req : r > FirstWaiting => startPc[r] = "idle"

ScenarioC16 ==
  /\ \A r \in 1..Limit : startPc[r] # "idle" => ~waited[r] /\ dispatched[r] = 1
  /\ (OnlyScenarioSubmissions /\ PositionKnown(FirstWaiting) /\ waited[FirstWaiting]) =>
       IF \A r \in 1..Limit : releases[r] = 0
       THEN /\ startRet[FirstWaiting] = [queued |-> TRUE, queuePosition |-> 1]
            /\ jobs[FirstWaiting].status = "PENDING"
            /\ getQueuePosition(qPending, FirstWaiting) = 1
            /\ \A r \in 1..Limit : execPc[r] \in {"dispatch", "load", "upload"}
                                       => jobs[r].status = "RUNNING"
       ELSE /\ dispatched[FirstWaiting] = 1
            /\ getQueuePosition(qPending, FirstWaiting) = 0

\* C16 as amended: queued and queuePosition describe the queue at the moment
\* startScan queries it after enqueueing: queued = false when the job is not
\* waiting then (started at once or promoted in between), otherwise queued =
\* true with the job's 1-based rank among the waiting jobs; and the scenario.
C16_QueuedReflectsQueueAtQuery ==
  /\ [](ScenarioC16)
  /\ [][\A r \in Req : PositionRead(r) =>
         IF Waiting(r)
         THEN startRet'[r] = [queued |-> TRUE, queuePosition |-> Rank(qPending, r)]
         ELSE startRet'[r].queued = FALSE /\ dispatched[r] >= 1]_vars

\* the job beyond the limit was reported queued at position 1 and, its
\* predecessor having completed, is now RUNNING at position 0
C16_Witness ==
  /\ OnlyScenarioSubmissions
  /\ startPc[FirstWaiting] = "returned"
  /\ startRet[FirstWaiting] = [queued |-> TRUE, queuePosition |-> 1]
  /\ releases[1] = 1
  /\ jobs[FirstWaiting].status = "RUNNING"
  /\ getQueuePosition(qPending, FirstWaiting) = 0

\* ------------------------------------------------------- batch properties
FailedImages == {i \in 1..Len(bulkLoop.log) : bulkLoop.log[i].result = "failed"}
LoopLeft == bulkLoop.pc \in {"complete", "failUpdate", "done"}
HasPlaceholder(i) ==
  \E j \in 1..Len(items) :
    items[j].image = i /\ items[j].status = "FAILED" /\ items[j].req = 0

\* the batch is never aborted: startScan is called for every image, and the
\* failed counter counts the images whose submission failed
NeverAborted ==
  /\ bulkLoop.failed = Cardinality(FailedImages)
  /\ bulkLoop.successful + bulkLoop.failed = Len(bulkLoop.log)
  /\ \A i \in 1..Len(bulkLoop.log) : bulkLoop.log[i].req # 0
  /\ LoopLeft => Len(bulkLoop.log) = batch.total

\* C18 as stated: a failed submission never aborts the batch, increments the
\* failed counter, and leaves a FAILED placeholder linked into the batch.
C18_FailedImageGetsPlaceholder ==
  /\ NeverAborted
  /\ \A i \in FailedImages : HasPlaceholder(i)

\* C18 as amended: the placeholder is linked unless one of its own two
\* writes (prisma.scan.create, bulkScanItem.create) is rejected; that
\* rejection is logged and the image has no item, but it is still counted
\* failed and the later images are still submitted.
C18_FailedImageIsolated ==
  /\ NeverAborted
  /\ \A i \in FailedImages : HasPlaceholder(i) \/ bulkLoop.log[i].phFault
  /\ \A i \in 1..Len(bulkLoop.log) : bulkLoop.log[i].phFault => ~HasPlaceholder(i)

\* the first image's submission failed and got its placeholder, the second
\* image was submitted and linked afterwards
C18_Witness ==
  /\ batch.total = 2
  /\ bulkLoop.pc = "done"
  /\ bulkLoop.log[1].result = "failed" /\ HasPlaceholder(1)
  /\ bulkLoop.log[2].result = "ok"
  /\ \E j \in 1..Len(items) : items[j].image = 2 /\ items[j].status = "RUNNING"
  /\ bulkLoop.failed = 1 /\ bulkLoop.successful = 1

\* C19: once queueScansInBackground has finished, the batch has left RUNNING:
\* it is COMPLETED, the loop having attempted every image (no exception
\* escapes the loop), unless cancelBulkScan set it FAILED.
C19_BatchLeavesRunning ==
  bulkLoop.pc = "done" =>
    /\ Len(bulkLoop.log) = batch.total
    /\ \/ batch.status = "COMPLETED"
       \/ batch.status = "FAILED" /\ batch.error = "Cancelled by user"

\* C20: cancelBulkScan on a RUNNING batch calls cancelScan for every item that
\* was RUNNING, a child's rejection never escapes, and when it returns it has
\* set the batch FAILED with 'Cancelled by user'; on a missing or not RUNNING
\* batch it throws and changes neither the batch, its items nor any scan.
AttemptedAll ==
  \A k \in 1..Len(bulkCancel.targets) :
    /\ cancels[BulkCancelId(k)].req = bulkCancel.targets[k]
    /\ cancels[BulkCancelId(k)].pc = "done"

C17_CountsWithinTotal ==
  /\ bulkLoop.successful + bulkLoop.failed <= batch.total
  /\ schedLoop.scannedCount + schedLoop.failedCount <= history.total
  /\ history.scannedImages + history.failedImages <= history.total

\* ------------------------------------------------- submission loop order
\* the startScan calls that have been issued and have not settled
InFlight == {r \in Req : startPc[r] \in {"enqueued", "persist"}}
StartScanCalled(r) == startPc[r] = "idle" /\ startPc'[r] # "idle"

\* C21: the bulk loop submits one image at a time in list order: at most one
\* startScan call of the batch is in flight, and the call for image i + 1 is
\* issued only after the submission and linking of images 1..i has finished
\* or failed.
C21_SequentialSubmission ==
  /\ [](Cardinality(InFlight) <= 1)
  /\ [](bulkLoop.pc \in {"submit", "starting", "link", "placeholder", "placeholderItem"}
          => Len(bulkLoop.log) = bulkLoop.i - 1)
  /\ [][\A r \in Req : StartScanCalled(r) =>
          /\ bulkLoop.pc = "submit"
          /\ InFlight = {}
          /\ Len(bulkLoop.log) = bulkLoop.i - 1
          /\ r = bulkLoop.i
          /\ \A q \in 1..(r - 1) : startPc[q] \in {"returned", "rejected"}]_vars

\* the second image's startScan is in flight after the first image was
\* linked, while the first image's scan is still with the Dispatcher
C21_Witness ==
  /\ batch.total = 2
  /\ bulkLoop.pc = "starting" /\ bulkLoop.i = 2
  /\ startPc[2] = "enqueued"
  /\ \E j \in 1..Len(items) : items[j].image = 1 /\ items[j].req = 1
  /\ execPc[1] = "dispatch"

\* ------------------------------------------------------- terminal events
TerminalEvents(r) == {i \in 1..Len(events[r]) : events[r][i].status \in Terminal}

\* C29: subscribers receive exactly one event with a terminal status per job
\* (none before the job is terminal, never a second one), and no event for
\* that requestId follows it.
C29_OneTerminalEventLast ==
  \A r \in Req :
    /\ Cardinality(TerminalEvents(r)) <= 1
    /\ \A i \in TerminalEvents(r) : i = Len(events[r])
    /\ (jobs[r].status \in Terminal /\ execPc[r] \in {"none", "done"})
          => Cardinality(TerminalEvents(r)) = 1

\* C30: once cancelBulkScan has set the batch FAILED, the batch status never
\* changes again, whatever the background submission loop does afterwards.
CancelledBatch == batch.status = "FAILED" /\ batch.error = "Cancelled by user"

C30_CancelledBatchStaysFailed ==
  [][CancelledBatch => batch' = batch]_vars

\* ----------------------------------------------- simulated-progress properties
\* simulateScanningProgress was called for the request
SimStarted(r) == \E i \in 1..Len(variants[r]) : variants[r][i] = "registry"

\* C22: a job for which simulated progress was started has had
\* progressTracker.cleanup called, and holds no armed timer, once it is
\* SUCCESS, FAILED or CANCELLED.
C22_CleanupOnEveryTerminal ==
  \A r \in Req : (SimStarted(r) /\ jobs[r].status \in Terminal) =>
    /\ tracker.cleanups[r] >= 1
    /\ tracker.timers[r] = {}

\* C23: simulated progress never reports 100 (an event with progress 100
\* carries a terminal status), and once cleanup was called for a request no
\* simulated event is emitted for it any more.
SimEmits(r) == tracker'.simEvents[r] # tracker.simEvents[r]

C23_SimulationBelow100AndStopped ==
  /\ [](\A r \in Req : \A i \in 1..Len(events[r]) :
          events[r][i].progress = 100 => events[r][i].status \in Terminal)
  /\ [](\A r \in Req : tracker.cleanups[r] >= 1 => tracker.timers[r] = {})
  /\ [][\A r \in Req : SimEmits(r) =>
          /\ tracker.cleanups[r] = 0
          /\ jobs[r].status = "RUNNING"
          /\ events'[r][Len(events'[r])].status = "RUNNING"
          /\ events'[r][Len(events'[r])].progress < 100]_vars

\* a simulated event was emitted for a running registry scan, which was then
\* cancelled and cleaned up while its Dispatcher is still at work
C23_Witness ==
  \E r \in Req : /\ tracker.simEvents[r] >= 1
                 /\ tracker.cleanups[r] >= 1
                 /\ jobs[r].status = "CANCELLED"
                 /\ execPc[r] = "dispatch"

\* C27: every started job had exactly one Dispatcher variant invoked, the
\* one of its source: tar for tar, local for local, registry for the rest.
VariantOfSource(src) == IF src \in {"tar", "local"} THEN src ELSE "registry"

C27_VariantMatchesSource ==
  \A r \in Req :
    /\ Len(variants[r]) = dispatched[r]
    /\ execPc[r] # "none" =>
         variants[r] = <<VariantOfSource(request[r].source)>>

\* ------------------------------------------------------ listener properties
RECURSIVE EventCount(_, _)
EventCount(ev, n) == IF n = 0 THEN 0 ELSE Len(ev[n]) + EventCount(ev, n - 1)

\* the number of events emitted in this step
Emitted == EventCount(events', MaxReq) - EventCount(events, MaxReq)

\* C24: every emitted event is delivered to every registered listener,
\* whether or not another listener throws; emitting leaves the listener list
\* unchanged; and a scan whose Dispatcher and finalize steps did not throw
\* ends SUCCESS with its slot released once, throwing listener or not.
C24_ThrowingListenerIsolated ==
  /\ [][\A l \in Subscriber :
          /\ tracker'.delivered[l] - tracker.delivered[l]
               = IF l \in Registered(tracker) THEN Emitted ELSE 0
          /\ Emitted > 0 => tracker'.listeners = tracker.listeners]_vars
  /\ [](\A r \in Req : (execPc[r] = "done" /\ execErr[r] = NoError) =>
          /\ jobs[r].status = "SUCCESS"
          /\ releases[r] = 1
          /\ r \notin qRunning)

\* the throwing listener was registered first, a second one after it; a scan
\* ran to SUCCESS and both were handed its two events
C24_Witness ==
  /\ tracker.listeners = <<1, 2>>
  /\ Throws(1) /\ ~Throws(2)
  /\ jobs[1].status = "SUCCESS" /\ releases[1] = 1
  /\ Len(events[1]) = 2
  /\ tracker.delivered[1] = 2 /\ tracker.delivered[2] = 2

\* ------------------------------------------------ bulk request properties
\* the pattern as a glob, anchored at both ends: * is any run of characters,
\* ? any single character, every other character itself
RECURSIVE GlobMatches(_, _)
GlobMatches(pattern, text) ==
  IF pattern = <<>> THEN text = <<>>
  ELSE IF Head(pattern) = "*"
  THEN \/ GlobMatches(Tail(pattern), text)
       \/ text # <<>> /\ GlobMatches(pattern, Tail(text))
  ELSE /\ text # <<>>
       /\ Head(pattern) = "?" \/ Head(pattern) = Head(text)
       /\ GlobMatches(Tail(pattern), Tail(text))

Excluded(image) ==
  \E k \in 1..Len(bulkReq.exclude) : GlobMatches(bulkReq.exclude[k], fullName(image))

ExcludeApplied ==
  \/ bulkReq.pc \in {"create", "returned"}
  \/ bulkReq.pc = "threw" /\ bulkReq.error = "No images found"

\* C25: the resolved list is the candidate list without the candidates whose
\* name:tag matches an exclude glob, in the original order; app:v1, app:v2,
\* app:latest with exclude app:latest resolve to app:v1, app:v2.
C25_ExcludeIsAnchoredGlob ==
  ExcludeApplied =>
    /\ bulkReq.matching = SelectSeq(bulkReq.candidates, LAMBDA image : ~Excluded(image))
    /\ (bulkReq.candidates = ScenarioImages /\ bulkReq.exclude = <<ScenarioExclude>>)
          => bulkReq.matching = <<[name |-> App, tag |-> <<"v", "1">>],
                                  [name |-> App, tag |-> <<"v", "2">>]>>

\* the request supplies a count as maxImages
Capped == bulkReq.maxImages # NoMax /\ bulkReq.maxImages >= 0
Submissions == {r \in Req : startPc[r] # "idle"}

\* C26: whatever count the request supplies as maxImages, the totalImages returned,
\* the batch's total and the number of child scans submitted are at most
\* maxImages, and every child is submitted while the batch record exists,
\* RUNNING.
C26_ImageCapIsHard ==
  /\ []((Capped /\ bulkReq.pc = "returned") =>
          /\ bulkReq.totalImages <= bulkReq.maxImages
          /\ batch.total <= bulkReq.maxImages
          /\ Cardinality(Submissions) <= bulkReq.maxImages)
  /\ [][\A r \in Req : StartScanCalled(r) => batch.status = "RUNNING"]_vars

\* the monitor has stopped: its interval is cleared and no callback of it is
\* suspended
MonitorStopped ==
  /\ monitor.started
  /\ ~monitor.active
  /\ \A c \in Callback : monitor.callbacks[c].pc = "free"

HistoryTerminal == {"COMPLETED", "PARTIAL", "FAILED"}

\* C28: the monitor's interval fires at most maxAttempts times, and in the
\* step in which the monitor stops the history holds COMPLETED, PARTIAL or
\* FAILED, FAILED with the timeout message when the attempts were used up
C28_MonitorStopsWithTerminalHistory ==
  /\ [](monitor.attempts <= maxAttempts)
  /\ [][(~MonitorStopped /\ MonitorStopped') =>
          /\ history'.status \in HistoryTerminal
          /\ monitor'.attempts >= maxAttempts =>
               /\ history'.status = "FAILED"
               /\ history'.error = TimeoutMessage]_vars

\* C31: once cancelBulkScan has returned for the batch, the background loop
\* issues no further startScan call for the batch's remaining images
C31_NoSubmissionAfterCancel ==
  [][bulkCancel.pc = "returned" => \A r \in Req : ~StartScanCalled(r)]_vars

\* the Dispatcher executions in flight: invoked, neither returned nor thrown
DispatcherInFlight == {r \in Req : execPc[r] = "dispatch"}

\* C32: the number of Dispatcher executions in flight never exceeds the
\* concurrency limit, also after a RUNNING job was cancelled and its slot was
\* handed to a waiting job
C32_DispatchersWithinLimit == Cardinality(DispatcherInFlight) <= Limit

ScanTerminal == {"SUCCESS", "FAILED", "CANCELLED"}

\* C33: a tick's callback that has found every tracked scan so far complete
\* and reads a scan with a terminal status (or has just recorded one) goes on
\* with allCompleted still set, to the next scan or to the final update,
\* never ending without finalizing; and the timeout message is written only
\* while some tracked scan is not terminal
C33_TerminalChildrenFinalize ==
  /\ [][\A c \in Callback :
          LET cb == monitor.callbacks[c] IN
          (/\ cb.allCompleted
           /\ cb.pc \in {"find", "update"}
           /\ cb.pc = "find" => dbStatus[cb.scan] \in ScanTerminal)
          => /\ monitor'.callbacks[c].pc # "free"
             /\ monitor'.callbacks[c].allCompleted]_vars
  /\ [][(history' # history /\ history'.error = TimeoutMessage) =>
          \E r \in monitor.scanResults : dbStatus[r] \notin ScanTerminal]_vars

\* C34: a history status of COMPLETED, PARTIAL or FAILED never changes again,
\* and an execution that tracked no scan is never written COMPLETED or
\* RUNNING once the submission loop has ended
C34_HistoryTerminalIsFinal ==
  /\ [][history.status \in HistoryTerminal => history'.status = history.status]_vars
  /\ [][(monitor.started /\ monitor.scanResults = {} /\ history' # history)
          => history'.status = "FAILED"]_vars

\* the images whose iteration has ended and whose startScan call resolved
SubmittedImages ==
  {i \in 1..Len(bulkLoop.log) : startPc[bulkLoop.log[i].req] = "returned"}

\* C35: every scan the bulk loop submitted successfully is linked to the
\* batch by an item referring to that scan, and no image has two items
C35_SubmittedScanIsLinked ==
  /\ \A i \in SubmittedImages :
       \E j \in 1..Len(items) : items[j].image = i /\ items[j].req = bulkLoop.log[i].req
  /\ \A i \in Image : Cardinality({j \in 1..Len(items) : items[j].image = i}) <= 1

\* C36: whatever number of ScannerService instances is constructed, the queue
\* has at most one scan-started listener, and a job the queue starts is handed
\* to the Dispatcher once
C36_OneScanStartedListener ==
  /\ [](Len(svc.listeners) <= 1)
  /\ [](\A r \in Req : dispatched[r] <= 1)
  /\ [][\A r \in Req : (r \notin qRunning /\ r \in qRunning')
          => dispatched'[r] = dispatched[r] + 1]_vars

\* a job that waited was started by the queue after the last instance was
\* constructed
C36_Witness ==
  /\ svc.created = MaxInstances
  /\ svc.listeners = <<MaxInstances>>
  /\ \E r \in Req : waited[r] /\ dispatched[r] = 1 /\ execPc[r] = "dispatch"

\* the requests let through in the 60 seconds that start with the i-th
AdmittedInWindow(i) ==
  {k \in 1..Len(limiter.admitted) :
     /\ k >= i
     /\ limiter.admitted[k] < limiter.admitted[i] + Minute}

\* C37: no window of 60 seconds has more than requestsPerMinute requests let
\* through by handleRateLimit
C37_MinuteLimitHolds ==
  \A i \in 1..Len(limiter.admitted) :
    Cardinality(AdmittedInWindow(i)) <= requestsPerMinute

====
